---- MODULE Spec2Model ----
(***************************************************************************)
(* Passkey authentication and session management of the forum worker:     *)
(* the routes of worker/src/routes/auth.ts, the admin login and the admin *)
(* middleware of worker/src/routes/admin.ts, over the KV namespace        *)
(* KV_SESSIONS (challenge:<nonce> and session:<token> keys) and the D1    *)
(* tables Users and Passkeys.                                              *)
(*                                                                         *)
(* A request handler is split at the awaits that touch a store: two       *)
(* requests interleave exactly there.  Handlers with one store access, or *)
(* whose accesses are not raced by any claim, take one step.              *)
(***************************************************************************)
EXTENDS Integers, Sequences, FiniteSets, TLC

\* ------------------------------------------------------------- bounds
MaxNonce == 2
MaxToken == 2
MaxUser == 2
MaxCred == 2
MaxCounter == 2

Nonces == 1..MaxNonce
Tokens == 1..MaxToken
UserIds == 1..MaxUser
CredIds == 1..MaxCred
Counters == 0..MaxCounter
Usernames == {"admin", "alice"}
Roles == {"user", "admin"}

\* The value a login challenge is stored with: the string 'true', which is
\* the id of no user (user ids are 1..MaxUser here).
LoginSentinel == 0

\* HTTP_STATUS
OK == 200
BAD_REQUEST == 400
UNAUTHORIZED == 401
FORBIDDEN == 403
NOT_FOUND == 404
CONFLICT == 409
UNPROCESSABLE_ENTITY == 422
CREATED == 201
INTERNAL_SERVER_ERROR == 500

VARIABLES
    registerEnabled, \* c.env.REGISTER_ENABLED
    kvChallenge,     \* KV_SESSIONS, keys challenge:<nonce>: nonce -> value
    kvSession,       \* KV_SESSIONS, keys session:<token>: token -> user id
    users,           \* table Users: id -> [username, role]
    passkeys,        \* table Passkeys: id -> [user_id, sign_counter]
    nextNonce,       \* nonces handed out so far + 1 (options.challenge is fresh)
    nextToken,       \* tokens handed out so far + 1 (crypto.randomUUID is fresh)
    nextUser,        \* user ids handed out so far + 1
    procs            \* the requests in flight and the last response of each slot

\* The private messages of routes/messages.ts.
VARIABLES
    conversations,   \* table Conversations: id -> [user1_id, user2_id, unread counts]
    privateMessages, \* table PrivateMessages in created_at order: [conversation_id, author_id, body]
    s3,              \* the bucket: key -> bytes
    nextUuid,        \* crypto.randomUUID() calls so far + 1
    sentBody,        \* history: PrivateMessages id -> the body its POST carried
    returned,        \* history: <<PrivateMessages id, user id>> a GET answered with
    msgProcs         \* the requests to /messages in flight

messageVars == <<conversations, privateMessages, s3, nextUuid, sentBody, returned, msgProcs>>

\* The boards: polls, nodes and threads, replies, comments.
VARIABLES
    pollOptions,     \* table PollOptions: id -> [thread_id, vote_count]
    pollVotes,       \* table PollVotes, its rows in insertion order
    nodes,           \* table Nodes: id -> [thread_count]
    threads,         \* table Threads: id -> [node_id, author_id, is_author_only, type]
    nextThread,      \* sqlite_sequence of Threads + 1 (AUTOINCREMENT reuses no id)
    replies,         \* table Replies: id -> [thread_id, author_id, body, reply_to_id]
    comments,        \* table Comments: id -> [author_id]
    reqs             \* the requests to /threads, /admin/threads and /comments in flight

boardVars == <<pollOptions, pollVotes, nodes, threads, nextThread, replies, comments, reqs>>

\* What the routes of auth.ts never touch.
forum == <<messageVars, boardVars>>

authVars == <<registerEnabled, kvChallenge, kvSession, users, passkeys,
              nextNonce, nextToken, nextUser, procs>>

\* What routes/messages.ts never touches.
beyondMessages == <<authVars, boardVars>>

\* What the board routes never touch.
beyondBoards == <<authVars, messageVars>>

vars == <<authVars, forum>>

\* ------------------------------------------------------------- stores
\* kv.get / .first(): the value as a sequence of length 1, or <<>> for null
Get(store, k) == IF k \in DOMAIN store THEN <<store[k]>> ELSE <<>>

\* kv.put / INSERT
Put(store, k, v) == [x \in DOMAIN store \cup {k} |-> IF x = k THEN v ELSE store[x]]

\* kv.delete: deleting an absent key is not an error
Del(store, k) == [x \in DOMAIN store \ {k} |-> store[x]]

\* ------------------------------------------------------------- requests
Idle == [pc |-> "idle", route |-> "none", nonce |-> 0, val |-> <<>>, cred |-> 0,
         pk |-> <<>>, ctr |-> 0, tok |-> 0, user |-> 0, status |-> 0, code |-> "none",
         msg |-> ""]

\* The request slots: the requests the worker serves at the same time.
Procs == DOMAIN procs

\* A slot takes a new request when it holds none in flight; of two free
\* slots the lower one takes it (the slots are interchangeable).
Free(p) ==
    /\ procs[p].pc \in {"idle", "done"}
    /\ \A q \in Procs : q < p => procs[q].pc \notin {"idle", "done"}

\* The response of a finished request: the route and the nonce it was for,
\* the HTTP status and error code, the session token and the user returned,
\* and the error message where a claim tells two messages apart.
DoneMsg(route, nonce, tok, user, status, code, msg) ==
    [pc |-> "done", route |-> route, nonce |-> nonce, val |-> <<>>, cred |-> 0,
     pk |-> <<>>, ctr |-> 0, tok |-> tok, user |-> user, status |-> status, code |-> code,
     msg |-> msg]

Done(route, nonce, tok, user, status, code) ==
    DoneMsg(route, nonce, tok, user, status, code, "")

\* What a client can present: a nonce or token that was handed out, or one
\* that never is (0); the values are random and cannot be guessed ahead.
Presentable(next) == 0..(next - 1)

\* A request to /messages: the handler's locals and its response.
MsgIdle == [pc |-> "idle", route |-> "none", user |-> 0, conv |-> 0, page |-> 0,
            pageSize |-> 0, rows |-> <<>>, data |-> <<>>, body |-> <<>>,
            key |-> <<>>, status |-> 0]

MsgProcs == DOMAIN msgProcs

\* No private message was ever sent and no request to /messages is served.
MessagesIdle ==
    /\ conversations = <<>>
    /\ privateMessages = <<>>
    /\ s3 = <<>>
    /\ nextUuid = 1
    /\ sentBody = <<>>
    /\ returned = {}
    /\ msgProcs = [p \in {1} |-> MsgIdle]

\* A request to the boards: the handler's locals and its response.
ReqIdle == [pc |-> "idle", route |-> "none", user |-> 0, thread |-> 0, option |-> 0,
            ids |-> {}, target |-> 0, rows |-> <<>>, body |-> "", replyTo |-> 0,
            comment |-> 0, role |-> "", status |-> 0]

Reqs == DOMAIN reqs

\* No node, thread, reply, poll or comment exists and no request is served.
BoardsIdle ==
    /\ pollOptions = <<>>
    /\ pollVotes = <<>>
    /\ nodes = <<>>
    /\ threads = <<>>
    /\ nextThread = 1
    /\ replies = <<>>
    /\ comments = <<>>
    /\ reqs = [p \in {1} |-> ReqIdle]

ForumIdle == MessagesIdle /\ BoardsIdle

\* An installation with one ordinary member, alice, who registered a passkey
\* earlier (her challenge and session are gone); slots requests at a time.
InitWith(slots) ==
    /\ registerEnabled \in BOOLEAN
    /\ kvChallenge = <<>>
    /\ kvSession = <<>>
    /\ users = Put(<<>>, 1, [username |-> "alice", role |-> "user"])
    /\ passkeys = Put(<<>>, 1, [user_id |-> 1, sign_counter |-> 0])
    /\ nextNonce = 1
    /\ nextToken = 1
    /\ nextUser = 2
    /\ procs = [p \in slots |-> Idle]
    /\ ForumIdle

Init == InitWith({1})

InitConcurrent == InitWith({1, 2})

\* ------------------------------------------------------------- lib/passkeys
\* getUser(db, username, email): a user of that name (the e-mail address is
\* folded into the name: both are unique columns looked up together)
getUser(username) == {u \in DOMAIN users : users[u].username = username}

\* ------------------------------------------------------------- POST /register/challenge
RegisterChallenge(p, username) ==
    /\ Free(p)
    /\ IF ~registerEnabled
       THEN /\ procs' = [procs EXCEPT ![p] =
                   Done("register_challenge", 0, 0, 0, FORBIDDEN, "AUTH_FORBIDDEN")]
            /\ UNCHANGED <<kvChallenge, users, nextNonce, nextUser>>
       ELSE IF getUser(username) # {}
       THEN /\ procs' = [procs EXCEPT ![p] =
                   Done("register_challenge", 0, 0, 0, CONFLICT, "RESOURCE_ALREADY_EXISTS")]
            /\ UNCHANGED <<kvChallenge, users, nextNonce, nextUser>>
       ELSE /\ nextUser <= MaxUser
            /\ nextNonce <= MaxNonce
            /\ users' = Put(users, nextUser, [username |-> username, role |-> "user"])
            /\ kvChallenge' = Put(kvChallenge, nextNonce, nextUser)
            /\ nextUser' = nextUser + 1
            /\ nextNonce' = nextNonce + 1
            /\ procs' = [procs EXCEPT ![p] =
                   Done("register_challenge", nextNonce, 0, nextUser, OK, "OK")]
    /\ UNCHANGED <<forum, registerEnabled, kvSession, passkeys, nextToken>>

\* ------------------------------------------------------------- POST /login/challenge
LoginChallenge(p) ==
    /\ Free(p)
    /\ nextNonce <= MaxNonce
    /\ kvChallenge' = Put(kvChallenge, nextNonce, LoginSentinel)
    /\ nextNonce' = nextNonce + 1
    /\ procs' = [procs EXCEPT ![p] = Done("login_challenge", nextNonce, 0, 0, OK, "OK")]
    /\ UNCHANGED <<forum, registerEnabled, kvSession, users, passkeys, nextToken, nextUser>>

\* ------------------------------------------------------------- verify: the request body
\* The body cannot be read, holds no response, or its clientDataJSON cannot
\* be decoded: a validation error before any store is touched.
VerifyMalformed(p, route) ==
    /\ Free(p)
    /\ procs' = [procs EXCEPT ![p] =
           Done(route, 0, 0, 0, UNPROCESSABLE_ENTITY, "VALIDATION_ERROR")]
    /\ UNCHANGED <<forum, registerEnabled, kvChallenge, kvSession, users, passkeys,
                   nextNonce, nextToken, nextUser>>

\* A lookup that takes a missing challenge for a login challenge.
GetChallengeLenient(p, route, n, pcNext) ==
    /\ Free(p)
    /\ n \in Presentable(nextNonce)
    /\ LET value == Get(kvChallenge, n) IN
       procs' = [procs EXCEPT ![p] =
           [Idle EXCEPT !.pc = pcNext, !.route = route, !.nonce = n,
                        !.val = IF value = <<>> THEN <<LoginSentinel>> ELSE value]]
    /\ UNCHANGED <<forum, registerEnabled, kvChallenge, kvSession, users, passkeys,
                   nextNonce, nextToken, nextUser>>

\* getAndDeleteChallenge, first await: kv.get(key).  A null value ends the
\* request (nothing is deleted, the caller answers AUTH_SESSION_EXPIRED).
GetChallenge(p, route, n, pcNext) ==
    /\ Free(p)
    /\ n \in Presentable(nextNonce)
    /\ LET value == Get(kvChallenge, n) IN
       procs' = [procs EXCEPT ![p] =
           IF value = <<>>
           THEN Done(route, n, 0, 0, BAD_REQUEST, "AUTH_SESSION_EXPIRED")
           ELSE [Idle EXCEPT !.pc = pcNext, !.route = route, !.nonce = n, !.val = value]]
    /\ UNCHANGED <<forum, registerEnabled, kvChallenge, kvSession, users, passkeys,
                   nextNonce, nextToken, nextUser>>

\* A lookup that leaves the key in place (the delete forgotten).
DeleteChallengeSkipped(p, pcHere, pcNext) ==
    /\ procs[p].pc = pcHere
    /\ procs' = [procs EXCEPT ![p].pc = pcNext]
    /\ UNCHANGED <<forum, registerEnabled, kvChallenge, kvSession, users, passkeys,
                   nextNonce, nextToken, nextUser>>

\* getAndDeleteChallenge, second await: kv.delete(key)
DeleteChallenge(p, pcHere, pcNext) ==
    /\ procs[p].pc = pcHere
    /\ kvChallenge' = Del(kvChallenge, procs[p].nonce)
    /\ procs' = [procs EXCEPT ![p].pc = pcNext]
    /\ UNCHANGED <<forum, registerEnabled, kvSession, users, passkeys,
                   nextNonce, nextToken, nextUser>>

\* A token returned to the client without being put into the KV store.
createSessionNotStored(p, route, userId) ==
    /\ nextToken <= MaxToken
    /\ nextToken' = nextToken + 1
    /\ procs' = [procs EXCEPT ![p] =
           Done(route, procs[p].nonce, nextToken, 0, OK, "OK")]
    /\ UNCHANGED <<forum, registerEnabled, kvChallenge, kvSession, users, passkeys,
                   nextNonce, nextUser>>

\* createSession: a fresh token bound to the user id
createSession(p, route, userId) ==
    /\ nextToken <= MaxToken
    /\ kvSession' = Put(kvSession, nextToken, userId)
    /\ nextToken' = nextToken + 1
    /\ procs' = [procs EXCEPT ![p] =
           Done(route, procs[p].nonce, nextToken, 0, OK, "OK")]
    /\ UNCHANGED <<forum, registerEnabled, kvChallenge, users, passkeys, nextNonce, nextUser>>

\* ------------------------------------------------------------- POST /register/verify
RegisterVerifyGet(p, n) == GetChallenge(p, "register_verify", n, "rv_delete")

RegisterVerifyDelete(p) == DeleteChallenge(p, "rv_delete", "rv_verify")

\* An INSERT with the foreign key of user_id not enforced.
InsertPasskeyNoForeignKey(credentialID, userId) ==
    credentialID \notin DOMAIN passkeys

\* INSERT INTO Passkeys: id is the primary key, user_id references Users(id)
InsertPasskeyOk(credentialID, userId) ==
    /\ credentialID \notin DOMAIN passkeys
    /\ userId \in DOMAIN users

\* The error message of a failed /register/verify: the handler's own text
\* when verified is false, else error.message of what was thrown, by the
\* verifier or by the database.
RegisterVerifyMessage(attestation) ==
    CASE attestation = "unverified" -> "verification failed"
      [] attestation = "throws" -> "verifier error message"
      [] OTHER -> "store error message"

\* An INSERT that does not wait for the outcome of the verification.
RegisterVerifyInsertUnverified(p, attestation, credentialID, counter) ==
    /\ procs[p].pc = "rv_verify"
    /\ LET userId == procs[p].val[1] IN
       IF InsertPasskeyOk(credentialID, userId)
       THEN /\ passkeys' = Put(passkeys, credentialID,
                               [user_id |-> userId, sign_counter |-> counter])
            /\ procs' = [procs EXCEPT ![p].pc = "rv_session", ![p].cred = credentialID]
       ELSE /\ procs' = [procs EXCEPT ![p] =
                   DoneMsg("register_verify", procs[p].nonce, 0, 0,
                           BAD_REQUEST, "AUTH_UNAUTHORIZED",
                           RegisterVerifyMessage(attestation))]
            /\ UNCHANGED passkeys
    /\ UNCHANGED <<forum, registerEnabled, kvChallenge, kvSession, users,
                   nextNonce, nextToken, nextUser>>

\* verifyRegistrationResponse, then the INSERT.  attestation is what the
\* library makes of the response: "verified", "unverified" (verified false
\* or no registrationInfo) or "throws".  A failed INSERT throws into the
\* same catch.
RegisterVerifyInsert(p, attestation, credentialID, counter) ==
    /\ procs[p].pc = "rv_verify"
    /\ LET userId == procs[p].val[1] IN
       IF attestation = "verified" /\ InsertPasskeyOk(credentialID, userId)
       THEN /\ passkeys' = Put(passkeys, credentialID,
                               [user_id |-> userId, sign_counter |-> counter])
            /\ procs' = [procs EXCEPT ![p].pc = "rv_session", ![p].cred = credentialID]
       ELSE /\ procs' = [procs EXCEPT ![p] =
                   DoneMsg("register_verify", procs[p].nonce, 0, 0,
                           BAD_REQUEST, "AUTH_UNAUTHORIZED",
                           RegisterVerifyMessage(attestation))]
            /\ UNCHANGED passkeys
    /\ UNCHANGED <<forum, registerEnabled, kvChallenge, kvSession, users,
                   nextNonce, nextToken, nextUser>>

RegisterVerifySession(p) ==
    /\ procs[p].pc = "rv_session"
    /\ createSession(p, "register_verify", procs[p].val[1])

\* ------------------------------------------------------------- POST /login/verify
LoginVerifyGet(p, n) == GetChallenge(p, "login_verify", n, "lv_delete")

LoginVerifyDelete(p) == DeleteChallenge(p, "lv_delete", "lv_passkey")

\* A lookup that falls back to some stored passkey when the id is unknown.
GetPasskeyFallback(p, route, pcHere, pcNext, id) ==
    /\ procs[p].pc = pcHere
    /\ LET known == IF id \in DOMAIN passkeys THEN id ELSE CHOOSE x \in DOMAIN passkeys : TRUE
       IN  procs' = [procs EXCEPT ![p] =
               [procs[p] EXCEPT !.pc = pcNext, !.cred = known, !.pk = <<passkeys[known]>>]]
    /\ UNCHANGED <<forum, registerEnabled, kvChallenge, kvSession, users, passkeys,
                   nextNonce, nextToken, nextUser>>

\* getPasskeyById(db, response.id)
GetPasskey(p, route, pcHere, pcNext, id) ==
    /\ procs[p].pc = pcHere
    /\ LET passkey == Get(passkeys, id) IN
       procs' = [procs EXCEPT ![p] =
           IF passkey = <<>>
           THEN Done(route, procs[p].nonce, 0, 0, NOT_FOUND, "RESOURCE_NOT_FOUND")
           ELSE [procs[p] EXCEPT !.pc = pcNext, !.cred = id, !.pk = passkey]]
    /\ UNCHANGED <<forum, registerEnabled, kvChallenge, kvSession, users, passkeys,
                   nextNonce, nextToken, nextUser>>

LoginVerifyPasskey(p, id) == GetPasskey(p, "login_verify", "lv_passkey", "lv_verify", id)

\* verifyAuthenticationResponse of @simplewebauthn/server: the signature
\* (with origin and relying-party id) must check, and the reported counter
\* must exceed the authenticator's unless both are zero.
verifyAuthenticationResponse(signatureOk, storedCounter, newCounter) ==
    /\ signatureOk
    /\ ~((newCounter > 0 \/ storedCounter > 0) /\ newCounter <= storedCounter)

\* An UPDATE without its WHERE clause.
UpdateSignCounterEverywhere(id, newCounter) ==
    [x \in DOMAIN passkeys |-> [passkeys[x] EXCEPT !.sign_counter = newCounter]]

\* UPDATE Passkeys SET sign_counter = ? WHERE id = ?
UpdateSignCounter(id, newCounter) ==
    [x \in DOMAIN passkeys |->
        IF x = id THEN [passkeys[x] EXCEPT !.sign_counter = newCounter] ELSE passkeys[x]]

\* The verification against the passkey read before, then the UPDATE.
LoginVerifyUpdate(p, signatureOk, newCounter) ==
    /\ procs[p].pc = "lv_verify"
    /\ IF verifyAuthenticationResponse(signatureOk, procs[p].pk[1].sign_counter, newCounter)
       THEN /\ passkeys' = UpdateSignCounter(procs[p].cred, newCounter)
            /\ procs' = [procs EXCEPT ![p].pc = "lv_session"]
       ELSE /\ procs' = [procs EXCEPT ![p] =
                   Done("login_verify", procs[p].nonce, 0, 0,
                        BAD_REQUEST, "AUTH_UNAUTHORIZED")]
            /\ UNCHANGED passkeys
    /\ UNCHANGED <<forum, registerEnabled, kvChallenge, kvSession, users,
                   nextNonce, nextToken, nextUser>>

LoginVerifySession(p) ==
    /\ procs[p].pc = "lv_session"
    /\ createSession(p, "login_verify", procs[p].pk[1].user_id)

\* ------------------------------------------------------------- session lookup
\* KV_SESSIONS.get(`session:${token}`), then SELECT ... FROM Users WHERE id = ?:
\* the row of the user the token is bound to, <<>> when either is missing
SessionUserIn(sessions, userRows, token) ==
    LET userId == Get(sessions, token) IN
    IF userId = <<>> THEN <<>> ELSE Get(userRows, userId[1])

SessionUser(token) == SessionUserIn(kvSession, users, token)

\* A delete that takes every session of the token's user with it.
deleteSessionsOfUser(token) ==
    [x \in {t \in DOMAIN kvSession :
                t # token /\ (token \in DOMAIN kvSession => kvSession[t] # kvSession[token])}
        |-> kvSession[x]]

\* A clean-up that leaves the session key in place.
deleteSessionSkipped(token) == kvSession

\* KV_SESSIONS.delete(`session:${token}`): the store without the key
deleteSession(token) == Del(kvSession, token)

\* ------------------------------------------------------------- POST /logout
\* header: "missing" (no Authorization header), "malformed" (not a Bearer
\* header) or "bearer" (Bearer <token>)

\* A logout that answers 401 for a token that has no session.
LogoutStrict(p, header, token) ==
    /\ Free(p)
    /\ token \in Presentable(nextToken)
    /\ IF header # "bearer" \/ token \notin DOMAIN kvSession
       THEN /\ procs' = [procs EXCEPT ![p] =
                   Done("logout", 0, 0, 0, UNAUTHORIZED, "AUTH_UNAUTHORIZED")]
            /\ UNCHANGED kvSession
       ELSE /\ kvSession' = Del(kvSession, token)
            /\ procs' = [procs EXCEPT ![p] = Done("logout", 0, token, 0, OK, "OK")]
    /\ UNCHANGED <<forum, registerEnabled, kvChallenge, users, passkeys,
                   nextNonce, nextToken, nextUser>>

Logout(p, header, token) ==
    /\ Free(p)
    /\ token \in Presentable(nextToken)
    /\ IF header # "bearer"
       THEN /\ procs' = [procs EXCEPT ![p] =
                   Done("logout", 0, 0, 0, UNAUTHORIZED, "AUTH_UNAUTHORIZED")]
            /\ UNCHANGED kvSession
       ELSE /\ kvSession' = deleteSession(token)
            /\ procs' = [procs EXCEPT ![p] = Done("logout", 0, token, 0, OK, "OK")]
    /\ UNCHANGED <<forum, registerEnabled, kvChallenge, users, passkeys,
                   nextNonce, nextToken, nextUser>>

\* ------------------------------------------------------------- GET /session
\* The response is 200 in every case; user is the user of {valid: true, user}
\* and 0 for {valid: false}.
GetSession(p, header, token) ==
    /\ Free(p)
    /\ token \in Presentable(nextToken)
    /\ LET userId == Get(kvSession, token)
           user == SessionUser(token)
       IN  IF header # "bearer" \/ userId = <<>>
           THEN /\ procs' = [procs EXCEPT ![p] =
                       Done("session", 0, IF header = "bearer" THEN token ELSE 0, 0, OK, "OK")]
                /\ UNCHANGED kvSession
           ELSE IF user = <<>>
           THEN /\ kvSession' = deleteSession(token)
                /\ procs' = [procs EXCEPT ![p] = Done("session", 0, token, 0, OK, "OK")]
           ELSE /\ procs' = [procs EXCEPT ![p] =
                       Done("session", 0, token, userId[1], OK, "OK")]
                /\ UNCHANGED kvSession
    /\ UNCHANGED <<forum, registerEnabled, kvChallenge, users, passkeys,
                   nextNonce, nextToken, nextUser>>

\* ------------------------------------------------------------- admin: role check
\* user.role !== 'admin' && user.username !== 'admin' is the rejection
IsAdmin(user) == user.role = "admin" \/ user.username = "admin"

\* ------------------------------------------------------------- adminAuthMiddleware, PUT /users/:id
\* The middleware, and behind it the handler that sets the role of user id
\* (an UPDATE of no row when there is no such user).
AdminUpdateUser(p, header, token, id, role) ==
    /\ Free(p)
    /\ token \in Presentable(nextToken)
    /\ LET userId == Get(kvSession, token)
           user == SessionUser(token)
       IN  IF header # "bearer" \/ userId = <<>>
           THEN /\ procs' = [procs EXCEPT ![p] =
                       DoneMsg("admin_users", 0, IF header = "bearer" THEN token ELSE 0, 0,
                               UNAUTHORIZED, "AUTH_UNAUTHORIZED",
                               IF header = "bearer"
                               THEN "session expired or invalid" ELSE "no bearer token")]
                /\ UNCHANGED <<kvSession, users>>
           ELSE IF user = <<>>
           THEN /\ kvSession' = deleteSession(token)
                /\ procs' = [procs EXCEPT ![p] =
                       DoneMsg("admin_users", 0, token, 0, UNAUTHORIZED, "AUTH_UNAUTHORIZED",
                               "user does not exist")]
                /\ UNCHANGED users
           ELSE IF ~IsAdmin(user[1])
           THEN /\ procs' = [procs EXCEPT ![p] =
                       Done("admin_users", 0, token, userId[1], FORBIDDEN, "AUTH_FORBIDDEN")]
                /\ UNCHANGED <<kvSession, users>>
           ELSE /\ users' = [x \in DOMAIN users |->
                               IF x = id THEN [users[x] EXCEPT !.role = role] ELSE users[x]]
                /\ procs' = [procs EXCEPT ![p] =
                       Done("admin_users", 0, token, userId[1], OK, "OK")]
                /\ UNCHANGED kvSession
    /\ UNCHANGED <<forum, registerEnabled, kvChallenge, passkeys, nextNonce, nextToken, nextUser>>

\* ------------------------------------------------------------- POST /admin/login/challenge
AdminLoginChallenge(p) ==
    /\ Free(p)
    /\ nextNonce <= MaxNonce
    /\ kvChallenge' = Put(kvChallenge, nextNonce, LoginSentinel)
    /\ nextNonce' = nextNonce + 1
    /\ procs' = [procs EXCEPT ![p] =
           Done("admin_login_challenge", nextNonce, 0, 0, OK, "OK")]
    /\ UNCHANGED <<forum, registerEnabled, kvSession, users, passkeys, nextToken, nextUser>>

\* ------------------------------------------------------------- POST /admin/login/verify
\* kv.get of the challenge: here nothing is deleted yet
AdminLoginVerifyGet(p, n) == GetChallenge(p, "admin_login_verify", n, "av_passkey")

AdminLoginVerifyPasskey(p, id) ==
    GetPasskey(p, "admin_login_verify", "av_passkey", "av_verify", id)

\* The verification against the passkey read before, then the owner's row.
AdminLoginVerifyUser(p, signatureOk, newCounter) ==
    /\ procs[p].pc = "av_verify"
    /\ LET user == Get(users, procs[p].pk[1].user_id) IN
       procs' = [procs EXCEPT ![p] =
           IF ~verifyAuthenticationResponse(signatureOk, procs[p].pk[1].sign_counter, newCounter)
           THEN Done("admin_login_verify", procs[p].nonce, 0, 0,
                     BAD_REQUEST, "AUTH_UNAUTHORIZED")
           ELSE IF user = <<>> \/ ~IsAdmin(user[1])
           THEN Done("admin_login_verify", procs[p].nonce, 0, 0,
                     FORBIDDEN, "AUTH_FORBIDDEN")
           ELSE [procs[p] EXCEPT !.pc = "av_update", !.ctr = newCounter]]
    /\ UNCHANGED <<forum, registerEnabled, kvChallenge, kvSession, users, passkeys,
                   nextNonce, nextToken, nextUser>>

AdminLoginVerifyUpdate(p) ==
    /\ procs[p].pc = "av_update"
    /\ passkeys' = UpdateSignCounter(procs[p].cred, procs[p].ctr)
    /\ procs' = [procs EXCEPT ![p].pc = "av_delete"]
    /\ UNCHANGED <<forum, registerEnabled, kvChallenge, kvSession, users,
                   nextNonce, nextToken, nextUser>>

AdminLoginVerifyDelete(p) == DeleteChallenge(p, "av_delete", "av_session")

AdminLoginVerifySession(p) ==
    /\ procs[p].pc = "av_session"
    /\ createSession(p, "admin_login_verify", procs[p].pk[1].user_id)

\* ------------------------------------------------------------- KV expiry
\* expirationTtl: the store drops a challenge key 300 s, a session key
\* 86400 s after it was put; time is not modelled, a key may go at any step.
ExpireChallenge(n) ==
    /\ n \in DOMAIN kvChallenge
    /\ kvChallenge' = Del(kvChallenge, n)
    /\ UNCHANGED <<forum, registerEnabled, kvSession, users, passkeys,
                   nextNonce, nextToken, nextUser, procs>>

ExpireSession(t) ==
    /\ t \in DOMAIN kvSession
    /\ kvSession' = Del(kvSession, t)
    /\ UNCHANGED <<forum, registerEnabled, kvChallenge, users, passkeys,
                   nextNonce, nextToken, nextUser, procs>>

\* ------------------------------------------------------------- store failures
\* A write that throws (the database or the KV store is unavailable): the
\* handler's catch answers with error.message, AUTH_UNAUTHORIZED and 400.
StoreFailure(p, route) ==
    /\ procs' = [procs EXCEPT ![p] =
           DoneMsg(route, procs[p].nonce, 0, 0, BAD_REQUEST, "AUTH_UNAUTHORIZED",
                   "store error message")]
    /\ UNCHANGED <<forum, registerEnabled, kvChallenge, kvSession, users, passkeys,
                   nextNonce, nextToken, nextUser>>

\* INSERT INTO Passkeys throws for a row the database would have taken
RegisterVerifyInsertFails(p, credentialID) ==
    /\ procs[p].pc = "rv_verify"
    /\ InsertPasskeyOk(credentialID, procs[p].val[1])
    /\ StoreFailure(p, "register_verify")

\* kv.put of createSession throws, after the INSERT
RegisterVerifySessionFails(p) ==
    /\ procs[p].pc = "rv_session"
    /\ StoreFailure(p, "register_verify")

\* UPDATE Passkeys throws, after the response has verified
LoginVerifyUpdateFails(p, newCounter) ==
    /\ procs[p].pc = "lv_verify"
    /\ verifyAuthenticationResponse(TRUE, procs[p].pk[1].sign_counter, newCounter)
    /\ StoreFailure(p, "login_verify")

\* kv.put of createSession throws, after the UPDATE
LoginVerifySessionFails(p) ==
    /\ procs[p].pc = "lv_session"
    /\ StoreFailure(p, "login_verify")

\* ------------------------------------------------------------- account deletion
\* DELETE FROM Users WHERE id = ? by the operator (no route does it): the
\* Passkeys rows go with it (ON DELETE CASCADE), the session keys stay.
DeleteAccount(id) ==
    /\ id \in DOMAIN users
    /\ users' = Del(users, id)
    /\ passkeys' = [x \in {c \in DOMAIN passkeys : passkeys[c].user_id # id} |-> passkeys[x]]
    /\ UNCHANGED <<forum, registerEnabled, kvChallenge, kvSession,
                   nextNonce, nextToken, nextUser, procs>>

Headers == {"missing", "malformed", "bearer"}
VerifyRoutes == {"register_verify", "login_verify", "admin_login_verify"}
Attestations == {"verified", "unverified", "throws"}

Next ==
    \/ \E n \in Nonces : ExpireChallenge(n)
    \/ \E t \in Tokens : ExpireSession(t)
    \/ \E p \in Procs, name \in Usernames : RegisterChallenge(p, name)
    \/ \E p \in Procs : LoginChallenge(p)
    \/ \E p \in Procs, route \in VerifyRoutes : VerifyMalformed(p, route)
    \/ \E p \in Procs, n \in 0..MaxNonce : RegisterVerifyGet(p, n)
    \/ \E p \in Procs : RegisterVerifyDelete(p)
    \/ \E p \in Procs, a \in Attestations, id \in CredIds, c \in Counters :
           RegisterVerifyInsert(p, a, id, c)
    \/ \E p \in Procs : RegisterVerifySession(p)
    \/ \E p \in Procs, n \in 0..MaxNonce : LoginVerifyGet(p, n)
    \/ \E p \in Procs : LoginVerifyDelete(p)
    \/ \E p \in Procs, id \in 0..MaxCred : LoginVerifyPasskey(p, id)
    \/ \E p \in Procs, ok \in BOOLEAN, c \in Counters : LoginVerifyUpdate(p, ok, c)
    \/ \E p \in Procs : LoginVerifySession(p)
    \/ \E p \in Procs : AdminLoginChallenge(p)
    \/ \E p \in Procs, n \in 0..MaxNonce : AdminLoginVerifyGet(p, n)
    \/ \E p \in Procs, id \in 0..MaxCred : AdminLoginVerifyPasskey(p, id)
    \/ \E p \in Procs, ok \in BOOLEAN, c \in Counters : AdminLoginVerifyUser(p, ok, c)
    \/ \E p \in Procs : AdminLoginVerifyUpdate(p)
    \/ \E p \in Procs : AdminLoginVerifyDelete(p)
    \/ \E p \in Procs : AdminLoginVerifySession(p)
    \/ \E p \in Procs, h \in Headers, t \in 0..MaxToken : Logout(p, h, t)
    \/ \E p \in Procs, h \in Headers, t \in 0..MaxToken : GetSession(p, h, t)
    \/ \E p \in Procs, h \in Headers, t \in 0..MaxToken, id \in UserIds, r \in Roles :
           AdminUpdateUser(p, h, t, id, r)

\* The ceremonies alone: the challenge and verify routes.
NextConcurrent ==
    \/ \E p \in Procs, name \in Usernames : RegisterChallenge(p, name)
    \/ \E p \in Procs : LoginChallenge(p)
    \/ \E p \in Procs, n \in 0..MaxNonce : RegisterVerifyGet(p, n)
    \/ \E p \in Procs : RegisterVerifyDelete(p)
    \/ \E p \in Procs, a \in Attestations, id \in CredIds, c \in Counters :
           RegisterVerifyInsert(p, a, id, c)
    \/ \E p \in Procs : RegisterVerifySession(p)
    \/ \E p \in Procs, n \in 0..MaxNonce : LoginVerifyGet(p, n)
    \/ \E p \in Procs : LoginVerifyDelete(p)
    \/ \E p \in Procs, id \in 0..MaxCred : LoginVerifyPasskey(p, id)
    \/ \E p \in Procs, ok \in BOOLEAN, c \in Counters : LoginVerifyUpdate(p, ok, c)
    \/ \E p \in Procs : LoginVerifySession(p)
    \/ \E p \in Procs : AdminLoginChallenge(p)
    \/ \E p \in Procs, n \in 0..MaxNonce : AdminLoginVerifyGet(p, n)
    \/ \E p \in Procs, id \in 0..MaxCred : AdminLoginVerifyPasskey(p, id)
    \/ \E p \in Procs, ok \in BOOLEAN, c \in Counters : AdminLoginVerifyUser(p, ok, c)
    \/ \E p \in Procs : AdminLoginVerifyUpdate(p)
    \/ \E p \in Procs : AdminLoginVerifyDelete(p)
    \/ \E p \in Procs : AdminLoginVerifySession(p)

\* One request at a time.
Spec == Init /\ [][Next]_vars

\* One request at a time, and accounts deleted behind the worker's back.
NextDeleted == Next \/ \E id \in UserIds : DeleteAccount(id)

SpecDeleted == Init /\ [][NextDeleted]_vars

\* One request at a time, with store writes that can fail.
NextFailing ==
    \/ Next
    \/ \E p \in Procs, id \in CredIds : RegisterVerifyInsertFails(p, id)
    \/ \E p \in Procs : RegisterVerifySessionFails(p)
    \/ \E p \in Procs, c \in Counters : LoginVerifyUpdateFails(p, c)
    \/ \E p \in Procs : LoginVerifySessionFails(p)

SpecFailing == Init /\ [][NextFailing]_vars

\* Two requests at a time, interleaved at their awaits.
SpecConcurrent == InitConcurrent /\ [][NextConcurrent]_vars

\* ============================================================= claims

ChallengeVerifyRoutes == {"register_verify", "login_verify"}

Verified(r) == r.pc = "done" /\ r.status = OK /\ r.tok # 0

\* C1: of two concurrent /auth/register/verify or /auth/login/verify requests
\* that present the same challenge nonce, at most one ends Verified.
C1_SameNonceVerifiedOnce ==
    \A p, q \in Procs :
        (/\ p # q
         /\ procs[p].route \in ChallengeVerifyRoutes
         /\ procs[q].route \in ChallengeVerifyRoutes
         /\ procs[p].nonce # 0
         /\ procs[p].nonce = procs[q].nonce)
        => ~(Verified(procs[p]) /\ Verified(procs[q]))

\* C3: no step lowers the stored sign_counter of a credential.
C3_SignCounterNeverDecreases ==
    [][\A id \in DOMAIN passkeys :
          id \in DOMAIN passkeys' =>
              passkeys'[id].sign_counter >= passkeys[id].sign_counter]_vars

\* C4: a login verification whose reported counter is not above the stored
\* sign_counter (both zero excepted) is rejected as verification failed, and
\* writes neither the counter nor a session.
C4_StaleCounterRejected ==
    [][\A p \in Procs, ok \in BOOLEAN, c \in Counters :
          (/\ LoginVerifyUpdate(p, ok, c)
           /\ procs[p].cred \in DOMAIN passkeys
           /\ c <= passkeys[procs[p].cred].sign_counter
           /\ ~(c = 0 /\ passkeys[procs[p].cred].sign_counter = 0))
          => /\ procs'[p].pc = "done"
             /\ procs'[p].code = "AUTH_UNAUTHORIZED"
             /\ passkeys' = passkeys
             /\ kvSession' = kvSession]_vars

\* The verification attempts that looked a challenge up and found it: they
\* end Verified, verification failed or credential not found.
Consumed(r) ==
    /\ r.pc = "done"
    /\ r.route \in ChallengeVerifyRoutes
    /\ r.nonce # 0
    /\ r.code \in {"OK", "AUTH_UNAUTHORIZED", "RESOURCE_NOT_FOUND"}

\* C2: requests one after another: after a /auth/register/verify or
\* /auth/login/verify attempt has consumed a nonce, the next attempt that
\* presents the nonce is rejected as challenge expired/unknown, and a
\* challenge key that is gone never comes back.
C2_ReplayRejected ==
    [][/\ \A p, q \in Procs, n \in Nonces :
             (/\ Consumed(procs[q])
              /\ procs[q].nonce = n
              /\ (RegisterVerifyGet(p, n) \/ LoginVerifyGet(p, n)))
             => /\ procs'[p].pc = "done"
                /\ procs'[p].status = BAD_REQUEST
                /\ procs'[p].code = "AUTH_SESSION_EXPIRED"
       /\ \A n \in Nonces :
             (n < nextNonce /\ n \notin DOMAIN kvChallenge) => n \notin DOMAIN kvChallenge'
      ]_vars

\* C2 witness: the only nonce handed out was consumed by a login that
\* raised the counter of credential 1, and was presented again.
C2_Witness ==
    /\ nextNonce = 2
    /\ passkeys[1].sign_counter > 0
    /\ \E p \in Procs :
          /\ procs[p].pc = "done"
          /\ procs[p].route = "login_verify"
          /\ procs[p].nonce = 1
          /\ procs[p].code = "AUTH_SESSION_EXPIRED"

\* The steps of a registration ceremony, for C5: the challenge stores the
\* new user's id under the nonce, the verify reads that id, inserts the one
\* row and binds the session to the same user.
RegistrationCeremonySteps(newCredentialOnly) ==
    /\ \A p \in Procs, name \in Usernames :
          (RegisterChallenge(p, name) /\ registerEnabled /\ getUser(name) = {})
          => /\ procs'[p].status = OK
             /\ procs'[p].nonce \in DOMAIN kvChallenge' \ DOMAIN kvChallenge
             /\ kvChallenge'[procs'[p].nonce] \in DOMAIN users' \ DOMAIN users
             /\ users'[kvChallenge'[procs'[p].nonce]].username = name
    /\ \A p \in Procs, n \in Nonces :
          (RegisterVerifyGet(p, n) /\ n \in DOMAIN kvChallenge)
          => procs'[p].pc = "rv_delete" /\ procs'[p].val = <<kvChallenge[n]>>
    /\ \A p \in Procs, id \in CredIds, c \in Counters :
          (/\ RegisterVerifyInsert(p, "verified", id, c)
           /\ procs[p].val[1] \in DOMAIN users
           /\ newCredentialOnly => id \notin DOMAIN passkeys)
          => /\ procs'[p].pc = "rv_session"
             /\ id \notin DOMAIN passkeys
             /\ passkeys' = Put(passkeys, id,
                                [user_id |-> procs[p].val[1], sign_counter |-> c])
    /\ \A p \in Procs :
          RegisterVerifySession(p)
          => /\ Verified(procs'[p])
             /\ procs'[p].tok \in DOMAIN kvSession' \ DOMAIN kvSession
             /\ SessionUserIn(kvSession', users', procs'[p].tok) = <<users[procs[p].val[1]]>>
             /\ kvSession'[procs'[p].tok] = procs[p].val[1]

\* C5 as stated: every correctly signed registration response that carries
\* the nonce of a registration challenge ends verified with one new row.
C5_EveryCeremonyVerifies == [][RegistrationCeremonySteps(FALSE)]_vars

\* C5 as amended: ... whose credential id is not yet in Passkeys ...
C5_NewCredentialVerifies == [][RegistrationCeremonySteps(TRUE)]_vars

\* C5 witness: a registration verified for the new user 2: the row of the
\* credential is hers and the token of the response resolves to her.
C5_Witness ==
    \E p \in Procs :
        /\ Verified(procs[p])
        /\ procs[p].route = "register_verify"
        /\ SessionUser(procs[p].tok) = <<users[2]>>
        /\ \E id \in DOMAIN passkeys : passkeys[id].user_id = 2

\* C6: /auth/register/verify on a login challenge (value 'true') inserts no
\* row and mints no session; it inserts only for the id of an existing user;
\* every Passkeys.user_id and every session value is such an id.
C6_OnlyRegistrationChallengesRegister ==
    /\ [](/\ \A id \in DOMAIN passkeys : passkeys[id].user_id \in DOMAIN users
          /\ \A t \in DOMAIN kvSession : kvSession[t] \in DOMAIN users)
    /\ [][\A p \in Procs, a \in Attestations, id \in CredIds, c \in Counters :
             RegisterVerifyInsert(p, a, id, c)
             => /\ procs[p].val[1] = LoginSentinel
                   => /\ passkeys' = passkeys
                      /\ procs'[p].pc = "done"
                      /\ procs'[p].tok = 0
                      /\ procs'[p].status = BAD_REQUEST
                /\ passkeys' # passkeys => procs[p].val[1] \in DOMAIN users]_vars

\* C6 witness: a /auth/register/verify that presented the nonce of a login
\* challenge (the only nonce handed out) was refused after consuming it.
C6_Witness ==
    /\ nextNonce = 2
    /\ nextUser = 2
    /\ kvChallenge = <<>>
    /\ \E p \in Procs :
          /\ procs[p].pc = "done"
          /\ procs[p].route = "register_verify"
          /\ procs[p].nonce = 1
          /\ procs[p].code = "AUTH_UNAUTHORIZED"

\* C7: an admin login that verifies cryptographically for a credential whose
\* owner does not have role 'admin' is answered Forbidden and writes no
\* session key (nor anything else).
C7_NonAdminLoginForbidden ==
    [][\A p \in Procs, c \in Counters :
          (/\ AdminLoginVerifyUser(p, TRUE, c)
           /\ verifyAuthenticationResponse(TRUE, procs[p].pk[1].sign_counter, c)
           /\ \A u \in DOMAIN users :
                 u = procs[p].pk[1].user_id => users[u].role # "admin")
          => /\ procs'[p].pc = "done"
             /\ procs'[p].status = FORBIDDEN
             /\ procs'[p].code = "AUTH_FORBIDDEN"
             /\ kvSession' = kvSession]_vars

\* C8: the admin middleware lets a request through to the handler only for a
\* bearer token of an existing user whose role is 'admin'; a session of an
\* existing user of another role gets 403, no or an unknown token 401, and
\* in both cases the handler does not run (Users is unchanged).
C8_AdminRoutesNeedAdminRole ==
    [][\A p \in Procs, h \in Headers, t \in 0..MaxToken, id \in UserIds, r \in Roles :
          AdminUpdateUser(p, h, t, id, r)
          => LET user == SessionUser(t) IN
             /\ (h = "bearer" /\ user # <<>> /\ user[1].role # "admin")
                => procs'[p].status = FORBIDDEN /\ users' = users
             /\ (h # "bearer" \/ t \notin DOMAIN kvSession)
                => procs'[p].status = UNAUTHORIZED /\ users' = users
             /\ procs'[p].status = OK
                => h = "bearer" /\ user # <<>> /\ user[1].role = "admin"]_vars

\* C9: resolving a token whose user is gone (GET /auth/session, the admin
\* middleware) reports it invalid and deletes the session key; resolving a
\* token that has no session key reports it invalid and changes no store.
C9_DanglingSessionCleanedUp ==
    [][/\ \A p \in Procs, t \in Tokens :
             GetSession(p, "bearer", t)
             => /\ (t \in DOMAIN kvSession /\ kvSession[t] \notin DOMAIN users)
                   => /\ procs'[p].status = OK
                      /\ procs'[p].user = 0
                      /\ kvSession' = Del(kvSession, t)
                /\ t \notin DOMAIN kvSession
                   => /\ procs'[p].status = OK
                      /\ procs'[p].user = 0
                      /\ kvSession' = kvSession
       /\ \A p \in Procs, t \in Tokens, id \in UserIds, r \in Roles :
             AdminUpdateUser(p, "bearer", t, id, r)
             => /\ (t \in DOMAIN kvSession /\ kvSession[t] \notin DOMAIN users)
                   => /\ procs'[p].status = UNAUTHORIZED
                      /\ kvSession' = Del(kvSession, t)
                      /\ users' = users
                /\ t \notin DOMAIN kvSession
                   => /\ procs'[p].status = UNAUTHORIZED
                      /\ kvSession' = kvSession
                      /\ users' = users
      ]_vars

\* C9 witness: the middleware found the session of a deleted user and
\* removed its key.
C9_Witness ==
    \E p \in Procs :
        /\ procs[p].pc = "done"
        /\ procs[p].route = "admin_users"
        /\ procs[p].msg = "user does not exist"
        /\ procs[p].tok \notin DOMAIN kvSession
        /\ \E u \in 1..(nextUser - 1) : u \notin DOMAIN users

\* C10: POST /auth/logout with a bearer token succeeds whether or not the
\* token has a session, removes that session key only, and called again
\* right after a logout of the same token it leaves the KV store as it is.
C10_LogoutIdempotent ==
    [][\A p \in Procs, t \in 0..MaxToken :
          Logout(p, "bearer", t)
          => /\ procs'[p].status = OK
             /\ kvSession' = Del(kvSession, t)
             /\ kvChallenge' = kvChallenge
             /\ (\E q \in Procs :
                    /\ procs[q].pc = "done"
                    /\ procs[q].route = "logout"
                    /\ procs[q].status = OK
                    /\ procs[q].tok = t)
                => kvSession' = kvSession]_vars

\* C10 witness: the logout of a token that was handed out and has no
\* session key (any more) has succeeded.
C10_Witness ==
    \E p \in Procs :
        /\ procs[p].pc = "done"
        /\ procs[p].route = "logout"
        /\ procs[p].status = OK
        /\ procs[p].tok \in 1..(nextToken - 1)
        /\ procs[p].tok \notin DOMAIN kvSession

\* C11: a verify request (register, login, admin login) that presents a nonce
\* whose challenge key has gone from the KV store is answered as for a nonce
\* that was never issued, 400 AUTH_SESSION_EXPIRED, and writes nothing; the
\* expiry of the TTL removes the key and nothing else.
C11_ExpiredLikeNeverIssued ==
    [][/\ \A n \in Nonces :
             ExpireChallenge(n)
             => /\ n \notin DOMAIN kvChallenge'
                /\ \A m \in DOMAIN kvChallenge \ {n} :
                      m \in DOMAIN kvChallenge' /\ kvChallenge'[m] = kvChallenge[m]
       /\ \A p \in Procs, n \in 0..MaxNonce :
             (/\ n \notin DOMAIN kvChallenge
              /\ \/ RegisterVerifyGet(p, n)
                 \/ LoginVerifyGet(p, n)
                 \/ AdminLoginVerifyGet(p, n))
             => /\ [procs'[p] EXCEPT !.nonce = 0] =
                       Done(procs'[p].route, 0, 0, 0, BAD_REQUEST, "AUTH_SESSION_EXPIRED")
                /\ procs'[p].route \in VerifyRoutes
                /\ passkeys' = passkeys
                /\ kvSession' = kvSession
                /\ kvChallenge' = kvChallenge
                /\ users' = users
      ]_vars

\* C11 witness: the admin login verify was refused for nonce 1, the one
\* nonce handed out, whose key is gone; no session was ever created and no
\* counter raised, so no verification had succeeded with it.
C11_Witness ==
    /\ nextNonce = 2
    /\ kvChallenge = <<>>
    /\ nextToken = 1
    /\ DOMAIN passkeys = {1}
    /\ passkeys[1].sign_counter = 0
    /\ \E p \in Procs :
          /\ procs[p].pc = "done"
          /\ procs[p].route = "admin_login_verify"
          /\ procs[p].nonce = 1
          /\ procs[p].code = "AUTH_SESSION_EXPIRED"

\* C12: a Users row comes into existence only in the step in which a
\* /auth/register/verify ends verified; a registration challenge leaves the
\* set of Users as it is.
C12_UsersOnlyByVerifiedRegistration ==
    [][DOMAIN users' # DOMAIN users
       => \E p \in Procs :
             /\ procs'[p].route = "register_verify"
             /\ Verified(procs'[p])
             /\ ~Verified(procs[p])]_vars

\* C13: a /auth/register/verify whose response does not verify (verified is
\* false, registrationInfo is missing, or the verifier throws) ends the
\* request with 400 AUTH_UNAUTHORIZED and no token, and writes no Passkeys
\* row, no session key and nothing else.
C13_FailedAttestationWritesNothing ==
    [][\A p \in Procs, a \in Attestations \ {"verified"}, id \in CredIds, c \in Counters :
          RegisterVerifyInsert(p, a, id, c)
          => /\ procs'[p].pc = "done"
             /\ procs'[p].status = BAD_REQUEST
             /\ procs'[p].code = "AUTH_UNAUTHORIZED"
             /\ procs'[p].tok = 0
             /\ passkeys' = passkeys
             /\ kvSession' = kvSession
             /\ users' = users
             /\ kvChallenge' = kvChallenge]_vars

\* C13 witness: the response of a registration challenge for a new user did
\* not verify; the user has no credential and there is no session.
C13_Witness ==
    /\ nextUser = 3
    /\ \A id \in DOMAIN passkeys : passkeys[id].user_id # 2
    /\ kvSession = <<>>
    /\ \E p \in Procs :
          /\ procs[p].pc = "done"
          /\ procs[p].route = "register_verify"
          /\ procs[p].nonce # 0
          /\ procs[p].code = "AUTH_UNAUTHORIZED"
          /\ procs[p].msg = "verification failed"

\* C14: when a store write of a verify request throws (the INSERT, the
\* UPDATE or the session put), the request ends in an error and none of its
\* writes remains: the credential it inserted is not in Passkeys, the
\* sign_counter is the one it read, and there is no new session.
C14_FailedWriteLeavesNothing ==
    [][\A p \in Procs :
          /\ (RegisterVerifySessionFails(p)
               \/ \E id \in CredIds : RegisterVerifyInsertFails(p, id))
             => /\ procs'[p].pc = "done"
                /\ procs'[p].status # OK
                /\ \A id \in DOMAIN passkeys' : passkeys'[id].user_id # procs[p].val[1]
                /\ kvSession' = kvSession
          /\ (LoginVerifySessionFails(p)
               \/ \E c \in Counters : LoginVerifyUpdateFails(p, c))
             => /\ procs'[p].pc = "done"
                /\ procs'[p].status # OK
                /\ procs[p].cred \in DOMAIN passkeys'
                /\ passkeys'[procs[p].cred].sign_counter = procs[p].pk[1].sign_counter
                /\ kvSession' = kvSession]_vars

\* C16: a correctly signed /auth/register/verify whose credential id is
\* already a row of Passkeys is answered with the conflict kind, leaves
\* Passkeys as it is and creates no session.
C16_DuplicateCredentialConflict ==
    [][\A p \in Procs, id \in CredIds, c \in Counters :
          (RegisterVerifyInsert(p, "verified", id, c) /\ id \in DOMAIN passkeys)
          => /\ procs'[p].pc = "done"
             /\ procs'[p].code = "RESOURCE_ALREADY_EXISTS"
             /\ procs'[p].status = CONFLICT
             /\ passkeys' = passkeys
             /\ kvSession' = kvSession]_vars

\* C17: a verify request whose store write throws is answered with the
\* internal-error kind, not with the verification-failed kind, and without
\* the store's own error message.
C17_StoreFailureIsInternalError ==
    [][\A p \in Procs :
          (\/ RegisterVerifySessionFails(p)
           \/ \E id \in CredIds : RegisterVerifyInsertFails(p, id)
           \/ LoginVerifySessionFails(p)
           \/ \E c \in Counters : LoginVerifyUpdateFails(p, c))
          => /\ procs'[p].pc = "done"
             /\ procs'[p].code = "INTERNAL_ERROR"
             /\ procs'[p].code # "AUTH_UNAUTHORIZED"
             /\ procs'[p].msg # "store error message"]_vars

\* C15: requests one after another: after a /admin/login/verify attempt that
\* presented a nonce and found its challenge (it ended Verified, verification
\* failed, credential not found or Forbidden), the next /admin/login/verify
\* that presents the nonce is rejected as challenge expired/unknown.
C15_AdminReplayRejected ==
    [][\A p, q \in Procs, n \in Nonces :
          (/\ procs[q].pc = "done"
           /\ procs[q].route = "admin_login_verify"
           /\ procs[q].nonce = n
           /\ procs[q].code \in {"OK", "AUTH_UNAUTHORIZED", "RESOURCE_NOT_FOUND",
                                 "AUTH_FORBIDDEN"}
           /\ AdminLoginVerifyGet(p, n))
          => /\ procs'[p].pc = "done"
             /\ procs'[p].status = BAD_REQUEST
             /\ procs'[p].code = "AUTH_SESSION_EXPIRED"]_vars

\* C18: a /auth/login/verify whose credential id is not in Passkeys is
\* answered 404 RESOURCE_NOT_FOUND without a token, and writes no session
\* and no sign_counter.
C18_UnknownCredentialNotFound ==
    [][\A p \in Procs, id \in 0..MaxCred :
          (LoginVerifyPasskey(p, id) /\ id \notin DOMAIN passkeys)
          => /\ procs'[p].pc = "done"
             /\ procs'[p].status = NOT_FOUND
             /\ procs'[p].code = "RESOURCE_NOT_FOUND"
             /\ procs'[p].tok = 0
             /\ kvSession' = kvSession
             /\ passkeys' = passkeys]_vars

\* C18 witness: a login with the nonce of a challenge and an unknown
\* credential id was answered not found.
C18_Witness ==
    \E p \in Procs :
        /\ procs[p].pc = "done"
        /\ procs[p].route = "login_verify"
        /\ procs[p].nonce # 0
        /\ procs[p].status = NOT_FOUND
        /\ procs[p].code = "RESOURCE_NOT_FOUND"

\* C19: a /auth/login/verify that verifies sets the sign_counter of the
\* credential it verified to the reported counter and changes no other row;
\* it then returns a token that was never handed out before, bound to the
\* user_id of that credential, and changes no other session.
C19_LoginUpdatesCounterAndMintsSession ==
    [][/\ \A p \in Procs, ok \in BOOLEAN, c \in Counters :
             (/\ LoginVerifyUpdate(p, ok, c)
              /\ verifyAuthenticationResponse(ok, procs[p].pk[1].sign_counter, c))
             => /\ procs'[p].pc = "lv_session"
                /\ DOMAIN passkeys' = DOMAIN passkeys
                /\ passkeys'[procs[p].cred].sign_counter = c
                /\ passkeys'[procs[p].cred].user_id = passkeys[procs[p].cred].user_id
                /\ \A id \in DOMAIN passkeys \ {procs[p].cred} : passkeys'[id] = passkeys[id]
       /\ \A p \in Procs :
             LoginVerifySession(p)
             => /\ Verified(procs'[p])
                /\ procs'[p].tok = nextToken
                /\ procs'[p].tok \notin DOMAIN kvSession
                /\ kvSession' = Put(kvSession, procs'[p].tok,
                                    passkeys[procs[p].cred].user_id)
                /\ passkeys' = passkeys
      ]_vars

\* C19 witness: a login with credential 1 and counter 2 has ended verified,
\* with a session of the credential's user, while another credential exists.
C19_Witness ==
    /\ passkeys[1].sign_counter = 2
    /\ \E id \in DOMAIN passkeys : id # 1
    /\ \E p \in Procs :
          /\ procs[p].route = "login_verify"
          /\ Verified(procs[p])
          /\ procs[p].tok \in DOMAIN kvSession
          /\ kvSession[procs[p].tok] = passkeys[1].user_id

\* C20: POST /auth/logout with a bearer token removes the session key of that
\* token and no other session or challenge key; GET /auth/session with the
\* token right after the logout reports valid=false.
C20_LogoutRemovesOneSession ==
    [][/\ \A p \in Procs, t \in 0..MaxToken :
             Logout(p, "bearer", t)
             => /\ t \notin DOMAIN kvSession'
                /\ \A u \in DOMAIN kvSession \ {t} :
                      u \in DOMAIN kvSession' /\ kvSession'[u] = kvSession[u]
                /\ DOMAIN kvSession' \subseteq DOMAIN kvSession
                /\ kvChallenge' = kvChallenge
                /\ SessionUserIn(kvSession', users', t) = <<>>
       /\ \A p, q \in Procs, t \in 0..MaxToken :
             (/\ procs[q].pc = "done"
              /\ procs[q].route = "logout"
              /\ procs[q].status = OK
              /\ procs[q].tok = t
              /\ GetSession(p, "bearer", t))
             => /\ procs'[p].status = OK
                /\ procs'[p].user = 0
      ]_vars

\* C20 witness: alice, the only user, had two sessions; the logout of one
\* has succeeded and the other session is still there.
C20_Witness ==
    /\ nextUser = 2
    /\ nextToken = 3
    /\ \E p \in Procs :
          /\ procs[p].pc = "done"
          /\ procs[p].route = "logout"
          /\ procs[p].status = OK
          /\ procs[p].tok \in 1..2
          /\ DOMAIN kvSession = {1, 2} \ {procs[p].tok}
          /\ \A t \in DOMAIN kvSession : kvSession[t] = 1

\* C21: a registration that was started and stored no credential can be
\* started again: POST /auth/register/challenge for a name whose user has no
\* Passkeys row is not answered with conflict.
C21_AbandonedRegistrationRetried ==
    [][\A p \in Procs, name \in Usernames :
          (/\ RegisterChallenge(p, name)
           /\ registerEnabled
           /\ \A u \in getUser(name), id \in DOMAIN passkeys : passkeys[id].user_id # u)
          => procs'[p].status # CONFLICT]_vars

\* ============================================================= private messages
\* routes/messages.ts. A text is the sequence of its UTF-16 code units; user
\* ids are the numbers 1..MaxMember, standing for id strings in that order.
MaxMember == 3
MaxMessage == 2
MaxPage == 2

Members == 1..MaxMember
MemberNames == <<"alice", "bob", "carol", "dave", "erin">>
Pages == 1..MaxPage
PageSizes == 1..MaxPage

\* A high surrogate with no low surrogate after it, U+FFFD, and a byte that
\* begins no UTF-8 sequence.
LoneSurrogate == "uD800"
Replacement == "uFFFD"
InvalidByte == "x89"

Digit(n) == <<"1", "2", "3", "4", "5", "6", "7", "8", "9">>[n]

\* new TextEncoder().encode(text): a lone surrogate is encoded as U+FFFD.
Encode(text) ==
    [i \in DOMAIN text |-> IF text[i] = LoneSurrogate THEN Replacement ELSE text[i]]

\* new TextDecoder().decode(bytes): a malformed byte decodes to U+FFFD.
Decode(bytes) ==
    [i \in DOMAIN bytes |-> IF bytes[i] = InvalidByte THEN Replacement ELSE bytes[i]]

\* crypto.randomUUID(): 36 characters, a different value at each call.
randomUUID(n) ==
    [i \in 1..36 |-> IF i \in {9, 14, 19, 24} THEN "-"
                     ELSE IF i = 36 THEN Digit(n) ELSE "0"]

\* `pm-body/${crypto.randomUUID()}`
bodyS3Key(n) == <<"p", "m", "-", "b", "o", "d", "y", "/">> \o randomUUID(n)

\* `avatars/${user.id}/${crypto.randomUUID()}.${ext}`, in the same bucket
avatarKey(user, n) ==
    <<"a", "v", "a", "t", "a", "r", "s", "/", Digit(user), "/">>
        \o randomUUID(n) \o <<".", "p", "n", "g">>

\* msg.body.length < 100 && msg.body.includes('/')
isS3Key(body) == Len(body) < 100 /\ \E i \in DOMAIN body : body[i] = "/"

\* The bodies a POST carries: plain text, and text with a lone surrogate.
SendBodies == {<<"h", "i">>, <<"h", LoneSurrogate>>}

\* Inline text of rows written before bodies moved to the bucket: plain,
\* short with a slash, long with a slash, and the path of an avatar.
LongText == [i \in 1..100 |-> IF i = 50 THEN "/" ELSE "x"]
LegacyTexts == {<<"h", "i">>, <<"1", "/", "2">>, LongText, avatarKey(1, 9)}

\* s3.get(key): null on 404.
S3Get(key) == Get(s3, key)

\* The body a GET returns for a row (messages.ts 143-176).
ResolveBody(body) ==
    IF isS3Key(body) /\ S3Get(body) # <<>> THEN Decode(S3Get(body)[1]) ELSE body

\* The ids of a conversation's rows, ORDER BY created_at ASC.
MessageIdsOf(conversationId) ==
    LET F[i \in 0..Len(privateMessages)] ==
            IF i = 0 THEN <<>>
            ELSE IF privateMessages[i].conversation_id = conversationId
                 THEN Append(F[i - 1], i) ELSE F[i - 1]
    IN F[Len(privateMessages)]

\* LIMIT ? OFFSET ?
LimitOffset(rows, limit, offset) ==
    SubSeq(rows, offset + 1, IF offset + limit < Len(rows) THEN offset + limit ELSE Len(rows))

\* SELECT id FROM Conversations WHERE user1_id = ? AND user2_id = ?
ConversationOf(user1_id, user2_id) ==
    {id \in DOMAIN conversations :
        /\ conversations[id].user1_id = user1_id
        /\ conversations[id].user2_id = user2_id}

\* [user.id, recipient.id].sort()
SortPair(a, b) == IF a < b THEN <<a, b>> ELSE <<b, a>>

MsgFree(p) ==
    /\ msgProcs[p].pc \in {"idle", "done"}
    /\ \A q \in MsgProcs : q < p => msgProcs[q].pc \notin {"idle", "done"}

\* The response of a finished request: its route and HTTP status (the page
\* a GET answers with is msgProcs[p].data at its last step).
MsgDone(route, status) ==
    [MsgIdle EXCEPT !.pc = "done", !.route = route, !.status = status]

\* The participant check reduced to "the conversation exists".
ListMessagesCheckExistsOnly(p, user, conversationId, page, pageSize) ==
    /\ MsgFree(p)
    /\ LET convCheck == Get(conversations, conversationId) IN
       IF convCheck = <<>>
       THEN msgProcs' = [msgProcs EXCEPT ![p] =
                MsgDone("GET /messages/:conversationId", FORBIDDEN)]
       ELSE msgProcs' = [msgProcs EXCEPT ![p] =
                [MsgIdle EXCEPT !.pc = "page", !.route = "GET /messages/:conversationId",
                                !.user = user, !.conv = conversationId,
                                !.page = page, !.pageSize = pageSize]]
    /\ UNCHANGED <<beyondMessages, conversations, privateMessages, s3, nextUuid, sentBody, returned>>

\* GET /messages/:conversationId, the participant check.
ListMessagesCheck(p, user, conversationId, page, pageSize) ==
    /\ MsgFree(p)
    /\ LET convCheck == Get(conversations, conversationId) IN
       IF \/ convCheck = <<>>
          \/ (convCheck[1].user1_id # user /\ convCheck[1].user2_id # user)
       THEN msgProcs' = [msgProcs EXCEPT ![p] =
                MsgDone("GET /messages/:conversationId", FORBIDDEN)]
       ELSE msgProcs' = [msgProcs EXCEPT ![p] =
                [MsgIdle EXCEPT !.pc = "page", !.route = "GET /messages/:conversationId",
                                !.user = user, !.conv = conversationId,
                                !.page = page, !.pageSize = pageSize]]
    /\ UNCHANGED <<beyondMessages, conversations, privateMessages, s3, nextUuid, sentBody, returned>>

\* GET /messages/:conversationId, the page of rows.
ListMessagesPage(p) ==
    /\ msgProcs[p].pc = "page"
    /\ LET offset == (msgProcs[p].page - 1) * msgProcs[p].pageSize
           ids == LimitOffset(MessageIdsOf(msgProcs[p].conv), msgProcs[p].pageSize, offset)
       IN msgProcs' = [msgProcs EXCEPT ![p].pc = "bodies",
               ![p].rows = [i \in DOMAIN ids |-> [id |-> ids[i], body |-> privateMessages[ids[i]].body]]]
    /\ UNCHANGED <<beyondMessages, conversations, privateMessages, s3, nextUuid, sentBody, returned>>

\* GET /messages/:conversationId, the bodies fetched from the bucket.
ListMessagesBodies(p) ==
    /\ msgProcs[p].pc = "bodies"
    /\ msgProcs' = [msgProcs EXCEPT ![p].pc = "clear",
            ![p].data = [i \in DOMAIN msgProcs[p].rows |->
                            [id |-> msgProcs[p].rows[i].id,
                             body |-> ResolveBody(msgProcs[p].rows[i].body)]]]
    /\ UNCHANGED <<beyondMessages, conversations, privateMessages, s3, nextUuid, sentBody, returned>>

\* GET /messages/:conversationId, the caller's unread count cleared and the
\* page answered.
ListMessagesClear(p) ==
    /\ msgProcs[p].pc = "clear"
    /\ LET user == msgProcs[p].user
           id == msgProcs[p].conv
           unreadFieldToClear ==
               IF conversations[id].user1_id = user THEN "user1_unread_count"
                                                    ELSE "user2_unread_count"
       IN /\ conversations' = [conversations EXCEPT ![id][unreadFieldToClear] = 0]
          /\ returned' = returned \cup
                 {<<msgProcs[p].data[i].id, user>> : i \in DOMAIN msgProcs[p].data}
          /\ msgProcs' = [msgProcs EXCEPT ![p] =
                 MsgDone(msgProcs[p].route, OK)]
    /\ UNCHANGED <<beyondMessages, privateMessages, s3, nextUuid, sentBody>>

\* The POSTs that have not yet written their row.
SendsBeforeInsert ==
    {q \in MsgProcs : msgProcs[q].pc \in {"find", "create", "put", "insert"}}

\* POST /messages, the recipient looked up.
SendMessageRecipient(p, user, recipientUsername, body) ==
    /\ MsgFree(p)
    /\ Len(privateMessages) + Cardinality(SendsBeforeInsert) < MaxMessage
    /\ LET recipient == {id \in DOMAIN users : users[id].username = recipientUsername} IN
       IF recipient = {}
       THEN msgProcs' = [msgProcs EXCEPT ![p] = MsgDone("POST /messages", NOT_FOUND)]
       ELSE IF user \in recipient
       THEN msgProcs' = [msgProcs EXCEPT ![p] =
                MsgDone("POST /messages", UNPROCESSABLE_ENTITY)]
       ELSE msgProcs' = [msgProcs EXCEPT ![p] =
                [MsgIdle EXCEPT !.pc = "find", !.route = "POST /messages", !.user = user,
                                !.rows = SortPair(user, CHOOSE id \in recipient : TRUE),
                                !.body = body]]
    /\ UNCHANGED <<beyondMessages, conversations, privateMessages, s3, nextUuid, sentBody, returned>>

\* POST /messages, the conversation looked up.
SendMessageFind(p) ==
    /\ msgProcs[p].pc = "find"
    /\ LET conversation == ConversationOf(msgProcs[p].rows[1], msgProcs[p].rows[2]) IN
       IF conversation # {}
       THEN msgProcs' = [msgProcs EXCEPT ![p].pc = "put",
                                         ![p].conv = CHOOSE id \in conversation : TRUE]
       ELSE msgProcs' = [msgProcs EXCEPT ![p].pc = "create"]
    /\ UNCHANGED <<beyondMessages, conversations, privateMessages, s3, nextUuid, sentBody, returned>>

\* The table without its UNIQUE (user1_id, user2_id) constraint.
InsertConversationNoUnique(user1_id, user2_id) ==
    conversations' = Put(conversations, Cardinality(DOMAIN conversations) + 1,
        [user1_id |-> user1_id, user2_id |-> user2_id,
         user1_unread_count |-> 0, user2_unread_count |-> 0])

\* INSERT INTO Conversations: UNIQUE (user1_id, user2_id) fails the second
\* row of a pair; unread counts DEFAULT 0; the id is the next rowid.
InsertConversation(user1_id, user2_id) ==
    /\ ConversationOf(user1_id, user2_id) = {}
    /\ conversations' = Put(conversations, Cardinality(DOMAIN conversations) + 1,
           [user1_id |-> user1_id, user2_id |-> user2_id,
            user1_unread_count |-> 0, user2_unread_count |-> 0])

\* POST /messages, the conversation created.
SendMessageCreate(p) ==
    /\ msgProcs[p].pc = "create"
    /\ IF ENABLED InsertConversation(msgProcs[p].rows[1], msgProcs[p].rows[2])
       THEN /\ InsertConversation(msgProcs[p].rows[1], msgProcs[p].rows[2])
            /\ msgProcs' = [msgProcs EXCEPT ![p].pc = "put",
                                ![p].conv = Cardinality(DOMAIN conversations) + 1]
       ELSE /\ msgProcs' = [msgProcs EXCEPT ![p] =
                    MsgDone("POST /messages", INTERNAL_SERVER_ERROR)]
            /\ UNCHANGED conversations
    /\ UNCHANGED <<beyondMessages, privateMessages, s3, nextUuid, sentBody, returned>>

\* POST /messages, the body uploaded under a fresh key.
SendMessagePut(p) ==
    /\ msgProcs[p].pc = "put"
    /\ s3' = Put(s3, bodyS3Key(nextUuid), Encode(msgProcs[p].body))
    /\ nextUuid' = nextUuid + 1
    /\ msgProcs' = [msgProcs EXCEPT ![p].pc = "insert", ![p].key = bodyS3Key(nextUuid)]
    /\ UNCHANGED <<beyondMessages, conversations, privateMessages, sentBody, returned>>

\* POST /messages, the row written with the key as its body.
SendMessageInsert(p) ==
    /\ msgProcs[p].pc = "insert"
    /\ privateMessages' = Append(privateMessages,
           [conversation_id |-> msgProcs[p].conv, author_id |-> msgProcs[p].user,
            body |-> msgProcs[p].key])
    /\ sentBody' = Put(sentBody, Len(privateMessages) + 1, msgProcs[p].body)
    /\ msgProcs' = [msgProcs EXCEPT ![p].pc = "update"]
    /\ UNCHANGED <<beyondMessages, conversations, s3, nextUuid, returned>>

\* POST /messages, the other party's unread count raised and 201 answered.
SendMessageUpdate(p) ==
    /\ msgProcs[p].pc = "update"
    /\ LET id == msgProcs[p].conv
           unreadFieldToIncrement ==
               IF msgProcs[p].rows[1] = msgProcs[p].user THEN "user2_unread_count"
                                                         ELSE "user1_unread_count"
       IN /\ conversations' = [conversations EXCEPT ![id][unreadFieldToIncrement] = @ + 1]
          /\ msgProcs' = [msgProcs EXCEPT ![p] =
                 MsgDone("POST /messages", CREATED)]
    /\ UNCHANGED <<beyondMessages, privateMessages, s3, nextUuid, sentBody, returned>>

\* The members, none of them in a passkey ceremony.
MembersOnly ==
    /\ registerEnabled = TRUE
    /\ kvChallenge = <<>>
    /\ kvSession = <<>>
    /\ users = [id \in Members |-> [username |-> MemberNames[id], role |-> "user"]]
    /\ passkeys = <<>>
    /\ nextNonce = 1
    /\ nextToken = 1
    /\ nextUser = MaxMember + 1
    /\ procs = [p \in {1} |-> Idle]

\* The bucket holds member 1's avatar; rows are the rows of PrivateMessages.
InitMessagesWith(slots, rows) ==
    /\ MembersOnly
    /\ BoardsIdle
    /\ privateMessages = rows
    /\ conversations =
           IF rows = <<>> THEN <<>>
           ELSE Put(<<>>, 1, [user1_id |-> 1, user2_id |-> 2,
                              user1_unread_count |-> 0, user2_unread_count |-> 1])
    /\ s3 = Put(<<>>, avatarKey(1, 9), <<InvalidByte, "P", "N", "G">>)
    /\ nextUuid = 1
    /\ sentBody = <<>>
    /\ returned = {}
    /\ msgProcs = [p \in slots |-> MsgIdle]

\* Members 1 and 2 have a conversation from before bodies moved to the
\* bucket, with one inline message of member 1 that member 2 has not read.
InitMessages ==
    \E text \in LegacyTexts :
        InitMessagesWith({1}, <<[conversation_id |-> 1, author_id |-> 1, body |-> text]>>)

\* No message was sent yet; two requests at a time.
InitSends == InitMessagesWith({1, 2}, <<>>)

ConversationIds == 0..MaxMember
RecipientNames == {MemberNames[id] : id \in Members} \cup {"nobody"}

NextMessages ==
    \/ \E p \in MsgProcs, user \in Members, conversationId \in ConversationIds,
          page \in Pages, pageSize \in PageSizes :
            ListMessagesCheck(p, user, conversationId, page, pageSize)
    \/ \E p \in MsgProcs : ListMessagesPage(p)
    \/ \E p \in MsgProcs : ListMessagesBodies(p)
    \/ \E p \in MsgProcs : ListMessagesClear(p)
    \/ \E p \in MsgProcs, user \in Members, recipientUsername \in RecipientNames,
          body \in SendBodies :
            SendMessageRecipient(p, user, recipientUsername, body)
    \/ \E p \in MsgProcs : SendMessageFind(p)
    \/ \E p \in MsgProcs : SendMessageCreate(p)
    \/ \E p \in MsgProcs : SendMessagePut(p)
    \/ \E p \in MsgProcs : SendMessageInsert(p)
    \/ \E p \in MsgProcs : SendMessageUpdate(p)

SpecMessages == InitMessages /\ [][NextMessages]_vars

\* POST /messages alone, two requests at a time.
NextSends ==
    \/ \E p \in MsgProcs, user \in Members, recipientUsername \in RecipientNames,
          body \in SendBodies :
            SendMessageRecipient(p, user, recipientUsername, body)
    \/ \E p \in MsgProcs : SendMessageFind(p)
    \/ \E p \in MsgProcs : SendMessageCreate(p)
    \/ \E p \in MsgProcs : SendMessagePut(p)
    \/ \E p \in MsgProcs : SendMessageInsert(p)
    \/ \E p \in MsgProcs : SendMessageUpdate(p)

SpecSends == InitSends /\ [][NextSends]_vars

\* ------------------------------------------------------------- claims C22..C25
IsParticipantIn(table, user, conversationId) ==
    /\ conversationId \in DOMAIN table
    /\ user \in {table[conversationId].user1_id, table[conversationId].user2_id}

IsParticipant(user, conversationId) == IsParticipantIn(conversations, user, conversationId)

\* C22: GET /messages/:conversationId serves participants only. A caller who is
\* neither user1 nor user2 of the conversation, or who names no conversation,
\* is answered Forbidden with no message in the answer and no unread count
\* changed; every request that goes on to read rows, and every message ever
\* answered with, belongs to a conversation of the caller.
C22_OnlyParticipantsRead ==
    [][/\ \A p \in MsgProcs, user \in Members, conversationId \in ConversationIds,
             page \in Pages, pageSize \in PageSizes :
               (/\ ListMessagesCheck(p, user, conversationId, page, pageSize)
                /\ ~IsParticipant(user, conversationId))
               => /\ msgProcs'[p].pc = "done"
                  /\ msgProcs'[p].status = FORBIDDEN
                  /\ msgProcs'[p].data = <<>>
                  /\ conversations' = conversations
                  /\ returned' = returned
       /\ \A p \in MsgProcs :
              msgProcs'[p].pc \in {"page", "bodies", "clear"}
              => IsParticipantIn(conversations', msgProcs'[p].user, msgProcs'[p].conv)
       /\ \A r \in returned' :
              IsParticipantIn(conversations', r[2],
                              privateMessages'[r[1]].conversation_id)]_vars

\* A caller was refused, and a participant was answered with a message.
C22_Witness ==
    /\ \E p \in MsgProcs :
           /\ msgProcs[p].pc = "done"
           /\ msgProcs[p].route = "GET /messages/:conversationId"
           /\ msgProcs[p].status = FORBIDDEN
    /\ returned # {}

\* P's unread count of a conversation, and the rows of the other party that
\* no GET has answered P with.
UnreadCount(conversationId, user) ==
    IF conversations[conversationId].user1_id = user
    THEN conversations[conversationId].user1_unread_count
    ELSE conversations[conversationId].user2_unread_count

NotReturnedTo(conversationId, user) ==
    {m \in DOMAIN privateMessages :
        /\ privateMessages[m].conversation_id = conversationId
        /\ privateMessages[m].author_id # user
        /\ <<m, user>> \notin returned}

\* C23: whenever no request is in flight, each participant's unread count of
\* each conversation is the number of the other party's messages that no read
\* has returned to that participant.
C23_UnreadCountsUnreturned ==
    (\A p \in MsgProcs : msgProcs[p].pc \in {"idle", "done"})
    => \A conversationId \in DOMAIN conversations, user \in Members :
           IsParticipant(user, conversationId)
           => UnreadCount(conversationId, user)
                  = Cardinality(NotReturnedTo(conversationId, user))

\* C24: Conversations holds at most one row for each unordered pair of users
\* and every row has user1_id < user2_id, whatever the interleaving of POST
\* /messages requests; a message to oneself is answered with the validation
\* error and creates no conversation and no message.
C24_OneConversationPerPair ==
    [][/\ \A a, b \in DOMAIN conversations' :
              /\ conversations'[a].user1_id < conversations'[a].user2_id
              /\ ({conversations'[a].user1_id, conversations'[a].user2_id}
                      = {conversations'[b].user1_id, conversations'[b].user2_id}
                  => a = b)
       /\ \A p \in MsgProcs, user \in Members, body \in SendBodies :
              SendMessageRecipient(p, user, MemberNames[user], body)
              => /\ msgProcs'[p].pc = "done"
                 /\ msgProcs'[p].status = UNPROCESSABLE_ENTITY
                 /\ conversations' = conversations
                 /\ privateMessages' = privateMessages
                 /\ s3' = s3]_vars

\* Two requests raced to create the conversation of one pair: one row was
\* written and the other INSERT was refused; and a self-send was refused.
C24_Witness ==
    /\ Cardinality(DOMAIN conversations) = 1
    /\ msgProcs[1].pc = "done" /\ msgProcs[1].status = INTERNAL_SERVER_ERROR
    /\ msgProcs[2].pc = "done" /\ msgProcs[2].status = CREATED

\* C25: a GET by a participant returns every message that was sent with POST
\* /messages with exactly the body the POST carried, its row holding the key
\* 'pm-body/<uuid>', which the reader takes for a key; and returns a row whose
\* body is legacy inline text with that text unchanged.
C25_BodiesRoundTrip ==
    [][\A p \in MsgProcs :
           ListMessagesClear(p)
           => \A i \in DOMAIN msgProcs[p].data :
                  LET m == msgProcs[p].data[i].id IN
                  IF m \in DOMAIN sentBody
                  THEN /\ msgProcs[p].data[i].body = sentBody[m]
                       /\ isS3Key(privateMessages[m].body)
                       /\ SubSeq(privateMessages[m].body, 1, 8)
                              = <<"p", "m", "-", "b", "o", "d", "y", "/">>
                  ELSE msgProcs[p].data[i].body = privateMessages[m].body]_vars

\* ============================================================= polls
\* POST /threads/:threadId/vote.
MaxThread == 2
MaxVote == 2

ThreadIds == 1..MaxThread
ThreadParams == 0..MaxThread    \* parseInt(c.req.param('threadId')): 0 is not > 0
OptionIds == 1..(MaxThread + 2) \* voteSchema.optionId: a positive integer

ReqFree(p) ==
    /\ reqs[p].pc \in {"idle", "done"}
    /\ \A q \in Reqs : q < p => reqs[q].pc \notin {"idle", "done"}

ReqDone(route, status) == [ReqIdle EXCEPT !.pc = "done", !.route = route, !.status = status]

\* SELECT * FROM PollVotes WHERE thread_id = ? AND user_id = ?
VotesOf(threadId, user) ==
    {v \in DOMAIN pollVotes :
        pollVotes[v].thread_id = threadId /\ pollVotes[v].user_id = user}

\* The votes in flight that have not yet reached their batch.
VotesBeforeBatch == {q \in Reqs : reqs[q].pc = "vote"}

\* POST /threads/:threadId/vote, the id validated and the earlier vote looked up.
VoteCheck(p, user, threadId, optionId) ==
    /\ ReqFree(p)
    /\ Len(pollVotes) + Cardinality(VotesBeforeBatch) < MaxVote
    /\ IF threadId <= 0
       THEN reqs' = [reqs EXCEPT ![p] =
                ReqDone("POST /threads/:threadId/vote", UNPROCESSABLE_ENTITY)]
       ELSE IF VotesOf(threadId, user) # {}
       THEN reqs' = [reqs EXCEPT ![p] = ReqDone("POST /threads/:threadId/vote", CONFLICT)]
       ELSE reqs' = [reqs EXCEPT ![p] =
                [ReqIdle EXCEPT !.pc = "vote", !.route = "POST /threads/:threadId/vote",
                                !.user = user, !.thread = threadId, !.option = optionId]]
    /\ UNCHANGED <<beyondBoards, pollOptions, pollVotes, nodes, threads, nextThread,
                   replies, comments>>

\* INSERT INTO PollVotes (thread_id, user_id, poll_option_id). The table's
\* definition is not among the sources: it may or may not refuse a second
\* row of one (thread_id, user_id).
InsertPollVote(threadId, user, optionId) ==
    /\ \E unique \in BOOLEAN : unique => VotesOf(threadId, user) = {}
    /\ pollVotes' = Append(pollVotes,
           [thread_id |-> threadId, user_id |-> user, poll_option_id |-> optionId])

\* UPDATE PollOptions SET vote_count = vote_count + 1 WHERE id = ?
IncrementVoteCount(optionId) ==
    pollOptions' = [id \in DOMAIN pollOptions |->
        IF id = optionId THEN [pollOptions[id] EXCEPT !.vote_count = @ + 1]
        ELSE pollOptions[id]]

\* POST /threads/:threadId/vote, executeTransaction: db.batch applies both
\* statements or, when one fails, neither.
VoteBatch(p) ==
    /\ reqs[p].pc = "vote"
    /\ \/ /\ InsertPollVote(reqs[p].thread, reqs[p].user, reqs[p].option)
          /\ IncrementVoteCount(reqs[p].option)
          /\ reqs' = [reqs EXCEPT ![p] = ReqDone(reqs[p].route, OK)]
       \/ /\ VotesOf(reqs[p].thread, reqs[p].user) # {}
          /\ UNCHANGED <<pollVotes, pollOptions>>
          /\ reqs' = [reqs EXCEPT ![p] = ReqDone(reqs[p].route, INTERNAL_SERVER_ERROR)]
    /\ UNCHANGED <<beyondBoards, nodes, threads, nextThread, replies, comments>>

\* Two poll threads of member 1 in node 1: options 1 and 2 belong to thread 1,
\* the others to thread 2; nobody has voted.
InitVotes ==
    /\ MembersOnly
    /\ MessagesIdle
    /\ nodes = Put(<<>>, 1, [thread_count |-> MaxThread])
    /\ threads = [id \in ThreadIds |->
           [node_id |-> 1, author_id |-> 1, is_author_only |-> FALSE, type |-> "poll"]]
    /\ nextThread = MaxThread + 1
    /\ pollOptions = [id \in 1..(MaxThread + 1) |->
           [thread_id |-> IF id <= 2 THEN 1 ELSE 2, vote_count |-> 0]]
    /\ pollVotes = <<>>
    /\ replies = <<>>
    /\ comments = <<>>
    /\ reqs = [p \in {1, 2} |-> ReqIdle]

NextVotes ==
    \/ \E p \in Reqs, user \in Members, threadId \in ThreadParams, optionId \in OptionIds :
           VoteCheck(p, user, threadId, optionId)
    \/ \E p \in Reqs : VoteBatch(p)

SpecVotes == InitVotes /\ [][NextVotes]_vars

\* ------------------------------------------------------------- claims C26, C27
\* C26: a user has at most one vote in a poll thread. However the POST
\* /threads/:threadId/vote requests of one user on one thread interleave, one
\* PollVotes row exists for that thread and user, and a request that arrives
\* at either of its steps when the row exists is answered conflict and
\* changes nothing.
C26_OneVotePerUserAndThread ==
    [][/\ \A threadId \in ThreadIds, user \in Members :
              Cardinality({v \in DOMAIN pollVotes' :
                  /\ pollVotes'[v].thread_id = threadId
                  /\ pollVotes'[v].user_id = user}) <= 1
       /\ \A p \in Reqs :
              (VoteBatch(p) /\ VotesOf(reqs[p].thread, reqs[p].user) # {})
              => /\ reqs'[p].status = CONFLICT
                 /\ pollVotes' = pollVotes
                 /\ pollOptions' = pollOptions]_vars

RECURSIVE SumVoteCounts(_)
SumVoteCounts(options) ==
    IF options = {} THEN 0
    ELSE LET id == CHOOSE id \in options : TRUE
         IN pollOptions[id].vote_count + SumVoteCounts(options \ {id})

OptionsOf(threadId) == {id \in DOMAIN pollOptions : pollOptions[id].thread_id = threadId}

\* C27: in every poll thread the vote_count of its options sum to the number
\* of its PollVotes rows, and every vote is for an option of its thread (a
\* vote for another option would have changed no vote_count).
C27_VoteCountsMatchVotes ==
    \A threadId \in ThreadIds :
        /\ SumVoteCounts(OptionsOf(threadId))
               = Cardinality({v \in DOMAIN pollVotes : pollVotes[v].thread_id = threadId})
        /\ \A v \in DOMAIN pollVotes :
               pollVotes[v].thread_id = threadId
               => pollVotes[v].poll_option_id \in OptionsOf(threadId)

\* ============================================================= nodes and threads
\* POST /threads, PUT /admin/threads/move, DELETE /admin/threads.
MaxNode == 2

NodeIds == 1..MaxNode
NodeParams == 1..(MaxNode + 1)      \* a positive integer, a node or not
ThreadIdSets == (SUBSET (1..MaxThread)) \ {{}}   \* ids: at least one

\* SELECT ... FROM Threads WHERE id IN (ids): the rows as read, id -> node_id
SelectThreads(ids) == [id \in ids \cap DOMAIN threads |-> threads[id].node_id]

\* The rows a handler read from node nodeId.
ReadFrom(rows, nodeId) == Cardinality({id \in DOMAIN rows : rows[id] = nodeId})

\* DELETE FROM Threads reaches PollOptions by ON DELETE CASCADE.
CascadeOptions(gone) ==
    LET kept == {id \in DOMAIN pollOptions : pollOptions[id].thread_id \notin gone}
    IN [id \in kept |-> pollOptions[id]]

\* POST /threads: the row inserted (node_id must name a node); Nodes is not
\* written.
CreateThread(p, user, nodeId, type, isAuthorOnly, options) ==
    /\ ReqFree(p)
    /\ nextThread <= MaxThread
    /\ IF type = "poll" /\ options < 2
       THEN /\ reqs' = [reqs EXCEPT ![p] = ReqDone("POST /threads", BAD_REQUEST)]
            /\ UNCHANGED <<threads, nextThread>>
       ELSE IF nodeId \notin DOMAIN nodes
       THEN /\ reqs' = [reqs EXCEPT ![p] = ReqDone("POST /threads", INTERNAL_SERVER_ERROR)]
            /\ UNCHANGED <<threads, nextThread>>
       ELSE /\ threads' = Put(threads, nextThread,
                    [node_id |-> nodeId, author_id |-> user,
                     is_author_only |-> isAuthorOnly, type |-> type])
            /\ nextThread' = nextThread + 1
            /\ reqs' = [reqs EXCEPT ![p] =
                    IF type = "poll"
                    THEN [ReqIdle EXCEPT !.pc = "options", !.route = "POST /threads",
                                         !.thread = nextThread, !.option = options]
                    ELSE ReqDone("POST /threads", CREATED)]
    /\ UNCHANGED <<beyondBoards, pollOptions, pollVotes, nodes, replies, comments>>

\* POST /threads, the poll's options inserted in a second batch.
CreateThreadOptions(p) ==
    /\ reqs[p].pc = "options"
    /\ IF reqs[p].thread \in DOMAIN threads
       THEN /\ pollOptions' =
                  LET first == Cardinality(DOMAIN pollOptions) IN
                  [id \in DOMAIN pollOptions \cup (first + 1)..(first + reqs[p].option) |->
                      IF id \in DOMAIN pollOptions THEN pollOptions[id]
                      ELSE [thread_id |-> reqs[p].thread, vote_count |-> 0]]
            /\ reqs' = [reqs EXCEPT ![p] = ReqDone("POST /threads", CREATED)]
       ELSE /\ reqs' = [reqs EXCEPT ![p] = ReqDone("POST /threads", INTERNAL_SERVER_ERROR)]
            /\ UNCHANGED pollOptions
    /\ UNCHANGED <<beyondBoards, pollVotes, nodes, threads, nextThread, replies, comments>>

\* PUT /admin/threads/move and DELETE /admin/threads, the rows read.
AdminSelectThreads(p, route, ids, targetNodeId) ==
    /\ ReqFree(p)
    /\ IF SelectThreads(ids) = <<>>
       THEN reqs' = [reqs EXCEPT ![p] = ReqDone(route, NOT_FOUND)]
       ELSE reqs' = [reqs EXCEPT ![p] =
                [ReqIdle EXCEPT !.pc = "batch", !.route = route, !.ids = ids,
                                !.target = targetNodeId, !.rows = SelectThreads(ids)]]
    /\ UNCHANGED <<beyondBoards, pollOptions, pollVotes, nodes, threads, nextThread,
                   replies, comments>>

\* PUT /admin/threads/move, the batch: each source node's count lowered by
\* the rows read from it, the target's raised, the threads moved. A target
\* that is no node fails the UPDATE of Threads and with it the batch.
AdminMoveBatch(p) ==
    /\ reqs[p].pc = "batch"
    /\ reqs[p].route = "PUT /admin/threads/move"
    /\ LET rows == reqs[p].rows
           target == reqs[p].target
           moving == {id \in DOMAIN rows : rows[id] # target}
       IN IF target \notin DOMAIN nodes /\ reqs[p].ids \cap DOMAIN threads # {}
          THEN /\ reqs' = [reqs EXCEPT ![p] = ReqDone(reqs[p].route, INTERNAL_SERVER_ERROR)]
               /\ UNCHANGED <<nodes, threads>>
          ELSE /\ nodes' = [n \in DOMAIN nodes |->
                      [nodes[n] EXCEPT !.thread_count =
                          IF n = target THEN @ + Cardinality(moving)
                          ELSE @ - ReadFrom(rows, n)]]
               /\ threads' = [id \in DOMAIN threads |->
                      IF id \in reqs[p].ids THEN [threads[id] EXCEPT !.node_id = target]
                      ELSE threads[id]]
               /\ reqs' = [reqs EXCEPT ![p] = ReqDone(reqs[p].route, OK)]
    /\ UNCHANGED <<beyondBoards, pollOptions, pollVotes, nextThread, replies, comments>>

\* DELETE /admin/threads, the batch: each node's count lowered by the rows
\* read from it, the threads deleted.
AdminDeleteBatch(p) ==
    /\ reqs[p].pc = "batch"
    /\ reqs[p].route = "DELETE /admin/threads"
    /\ nodes' = [n \in DOMAIN nodes |->
           [nodes[n] EXCEPT !.thread_count = @ - ReadFrom(reqs[p].rows, n)]]
    /\ threads' = [id \in DOMAIN threads \ reqs[p].ids |-> threads[id]]
    /\ pollOptions' = CascadeOptions(reqs[p].ids)
    /\ reqs' = [reqs EXCEPT ![p] = ReqDone(reqs[p].route, OK)]
    /\ UNCHANGED <<beyondBoards, pollVotes, nextThread, replies, comments>>

\* Two empty nodes.
InitThreads ==
    /\ MembersOnly
    /\ MessagesIdle
    /\ nodes = [n \in NodeIds |-> [thread_count |-> 0]]
    /\ threads = <<>>
    /\ nextThread = 1
    /\ pollOptions = <<>>
    /\ pollVotes = <<>>
    /\ replies = <<>>
    /\ comments = <<>>
    /\ reqs = [p \in {1} |-> ReqIdle]

NextThreads ==
    \/ \E p \in Reqs, user \in Members, nodeId \in NodeParams, type \in {"discussion", "poll"},
          isAuthorOnly \in BOOLEAN, options \in {0, 2} :
            CreateThread(p, user, nodeId, type, isAuthorOnly, options)
    \/ \E p \in Reqs : CreateThreadOptions(p)
    \/ \E p \in Reqs, ids \in ThreadIdSets, targetNodeId \in NodeParams :
           AdminSelectThreads(p, "PUT /admin/threads/move", ids, targetNodeId)
    \/ \E p \in Reqs, ids \in ThreadIdSets :
           AdminSelectThreads(p, "DELETE /admin/threads", ids, 0)
    \/ \E p \in Reqs : AdminMoveBatch(p)
    \/ \E p \in Reqs : AdminDeleteBatch(p)

SpecThreads == InitThreads /\ [][NextThreads]_vars

\* ------------------------------------------------------------- claim C28
ThreadsIn(nodeId) == {id \in DOMAIN threads : threads[id].node_id = nodeId}

\* C28: whenever no request is in flight, the thread_count of every node is
\* the number of Threads rows of that node, and is not negative.
C28_ThreadCountIsRowCount ==
    (\A p \in Reqs : reqs[p].pc \in {"idle", "done"})
    => \A n \in DOMAIN nodes :
           /\ nodes[n].thread_count = Cardinality(ThreadsIn(n))
           /\ nodes[n].thread_count >= 0

\* ============================================================= replies
\* POST /threads/:threadId/replies and GET /threads/:id.
MaxReply == 2

ReplyBodies == {"first", "second"}
ReplyToIds == 0..MaxReply       \* replyToId: a reply id, or null (0)
Viewers == 0..MaxMember         \* c.get('user'): a member, or nobody (0)

\* '[作者设置了仅作者可见]'
AuthorOnlyPlaceholder == "[author only]"

\* The rows of GET /threads/:id: Replies of the thread in created_at order,
\* LEFT JOINed with the reply each one quotes (quoted_body "" for none).
RepliesOf(threadId) ==
    LET F[i \in 0..Cardinality(DOMAIN replies)] ==
            IF i = 0 THEN <<>>
            ELSE IF replies[i].thread_id = threadId
                 THEN Append(F[i - 1],
                          [id |-> i, author_id |-> replies[i].author_id,
                           body |-> replies[i].body, reply_to_id |-> replies[i].reply_to_id,
                           quoted_body |-> IF replies[i].reply_to_id \in DOMAIN replies
                                           THEN replies[replies[i].reply_to_id].body ELSE ""])
                 ELSE F[i - 1]
    IN F[Cardinality(DOMAIN replies)]

\* filterAuthorOnlyReplies: only the body of a row is replaced.
filterAuthorOnlyReplies(rows, thread, user) ==
    IF ~thread.is_author_only THEN rows
    ELSE IF user # 0 /\ user = thread.author_id THEN rows
    ELSE [i \in DOMAIN rows |->
             IF user = 0 \/ rows[i].author_id # user
             THEN [rows[i] EXCEPT !.body = AuthorOnlyPlaceholder]
             ELSE rows[i]]

\* The replies in flight that have not yet written their row.
RepliesBeforeInsert == {q \in Reqs : reqs[q].pc = "reply"}

\* POST /threads/:threadId/replies, the id validated and the thread looked up.
CreateReplyCheck(p, user, threadId, body, replyToId) ==
    /\ ReqFree(p)
    /\ Cardinality(DOMAIN replies) + Cardinality(RepliesBeforeInsert) < MaxReply
    /\ IF threadId <= 0
       THEN reqs' = [reqs EXCEPT ![p] =
                ReqDone("POST /threads/:threadId/replies", UNPROCESSABLE_ENTITY)]
       ELSE IF threadId \notin DOMAIN threads
       THEN reqs' = [reqs EXCEPT ![p] = ReqDone("POST /threads/:threadId/replies", NOT_FOUND)]
       ELSE reqs' = [reqs EXCEPT ![p] =
                [ReqIdle EXCEPT !.pc = "reply", !.route = "POST /threads/:threadId/replies",
                                !.user = user, !.thread = threadId, !.body = body,
                                !.replyTo = replyToId]]
    /\ UNCHANGED <<beyondBoards, pollOptions, pollVotes, nodes, threads, nextThread,
                   replies, comments>>

\* POST /threads/:threadId/replies, the row inserted (reply_to_id must name a
\* reply or be null); the statistics and the reminder written after it are
\* columns and tables outside this model.
CreateReplyInsert(p) ==
    /\ reqs[p].pc = "reply"
    /\ IF reqs[p].replyTo # 0 /\ reqs[p].replyTo \notin DOMAIN replies
       THEN /\ reqs' = [reqs EXCEPT ![p] = ReqDone(reqs[p].route, INTERNAL_SERVER_ERROR)]
            /\ UNCHANGED replies
       ELSE /\ replies' = Put(replies, Cardinality(DOMAIN replies) + 1,
                    [thread_id |-> reqs[p].thread, author_id |-> reqs[p].user,
                     body |-> reqs[p].body, reply_to_id |-> reqs[p].replyTo])
            /\ reqs' = [reqs EXCEPT ![p] = ReqDone(reqs[p].route, CREATED)]
    /\ UNCHANGED <<beyondBoards, pollOptions, pollVotes, nodes, threads, nextThread, comments>>

\* GET /threads/:id, the id validated and the thread looked up (threads here
\* have read_permission 0, which everybody passes).
GetThreadCheck(p, user, id) ==
    /\ ReqFree(p)
    /\ IF id <= 0
       THEN reqs' = [reqs EXCEPT ![p] = ReqDone("GET /threads/:id", UNPROCESSABLE_ENTITY)]
       ELSE IF id \notin DOMAIN threads
       THEN reqs' = [reqs EXCEPT ![p] = ReqDone("GET /threads/:id", NOT_FOUND)]
       ELSE reqs' = [reqs EXCEPT ![p] =
                [ReqIdle EXCEPT !.pc = "replies", !.route = "GET /threads/:id",
                                !.user = user, !.thread = id]]
    /\ UNCHANGED <<beyondBoards, pollOptions, pollVotes, nodes, threads, nextThread,
                   replies, comments>>

\* GET /threads/:id, the replies read, filtered and answered.
GetThreadReplies(p) ==
    /\ reqs[p].pc = "replies"
    /\ reqs' = [reqs EXCEPT ![p].pc = "done", ![p].status = OK,
           ![p].rows = filterAuthorOnlyReplies(RepliesOf(reqs[p].thread),
                                               threads[reqs[p].thread], reqs[p].user)]
    /\ UNCHANGED <<beyondBoards, pollOptions, pollVotes, nodes, threads, nextThread,
                   replies, comments>>

\* One discussion thread of member 1, author-only or not, without replies.
InitReplies ==
    /\ MembersOnly
    /\ MessagesIdle
    /\ nodes = Put(<<>>, 1, [thread_count |-> 1])
    /\ \E isAuthorOnly \in BOOLEAN :
           threads = Put(<<>>, 1, [node_id |-> 1, author_id |-> 1,
                                   is_author_only |-> isAuthorOnly, type |-> "discussion"])
    /\ nextThread = 2
    /\ pollOptions = <<>>
    /\ pollVotes = <<>>
    /\ replies = <<>>
    /\ comments = <<>>
    /\ reqs = [p \in {1} |-> ReqIdle]

NextReplies ==
    \/ \E p \in Reqs, user \in Members, threadId \in ThreadParams, body \in ReplyBodies,
          replyToId \in ReplyToIds :
            CreateReplyCheck(p, user, threadId, body, replyToId)
    \/ \E p \in Reqs : CreateReplyInsert(p)
    \/ \E p \in Reqs, user \in Viewers, id \in ThreadParams : GetThreadCheck(p, user, id)
    \/ \E p \in Reqs : GetThreadReplies(p)

SpecReplies == InitReplies /\ [][NextReplies]_vars

\* ------------------------------------------------------------- claim C29
\* C29: the answer of GET /threads/:id for an author-only thread, to a viewer
\* who is not the thread's author, carries of no reply written by somebody
\* else its text: the body of such a reply is the placeholder (for an
\* anonymous viewer the body of every reply), and the quoted_body of a reply
\* that quotes such a reply is not that reply's text.
C29_AuthorOnlyHidesOthersReplies ==
    \A p \in Reqs :
        (/\ reqs[p].pc = "done"
         /\ reqs[p].route = "GET /threads/:id"
         /\ reqs[p].status = OK
         /\ threads[reqs[p].thread].is_author_only
         /\ reqs[p].user # threads[reqs[p].thread].author_id)
        => \A i \in DOMAIN reqs[p].rows :
               LET row == reqs[p].rows[i] IN
               /\ row.author_id # reqs[p].user => row.body = AuthorOnlyPlaceholder
               /\ (/\ row.reply_to_id \in DOMAIN replies
                   /\ replies[row.reply_to_id].author_id # reqs[p].user)
                  => row.quoted_body # replies[row.reply_to_id].body

\* ============================================================= comments
\* DELETE /comments/:id.
MaxComment == 2

CommentParams == 0..(MaxComment + 1)  \* parseInt(c.req.param('id')): 0 is not > 0
UserRoles == {"user", "moderator", "admin"}

\* ['admin', 'moderator'].includes(user.role)
isModerator(role) == role \in {"admin", "moderator"}

\* The check that lets every authenticated user pass.
DeleteCommentCheckExistsOnly(p, user, role, commentId) ==
    /\ ReqFree(p)
    /\ IF commentId <= 0
       THEN reqs' = [reqs EXCEPT ![p] = ReqDone("DELETE /comments/:id", UNPROCESSABLE_ENTITY)]
       ELSE IF commentId \notin DOMAIN comments
       THEN reqs' = [reqs EXCEPT ![p] = ReqDone("DELETE /comments/:id", NOT_FOUND)]
       ELSE reqs' = [reqs EXCEPT ![p] =
                [ReqIdle EXCEPT !.pc = "delete", !.route = "DELETE /comments/:id",
                                !.user = user, !.role = role, !.comment = commentId]]
    /\ UNCHANGED <<beyondBoards, pollOptions, pollVotes, nodes, threads, nextThread,
                   replies, comments>>

\* DELETE /comments/:id, the id validated, the comment looked up and the
\* caller's right to delete it decided.
DeleteCommentCheck(p, user, role, commentId) ==
    /\ ReqFree(p)
    /\ IF commentId <= 0
       THEN reqs' = [reqs EXCEPT ![p] = ReqDone("DELETE /comments/:id", UNPROCESSABLE_ENTITY)]
       ELSE IF commentId \notin DOMAIN comments
       THEN reqs' = [reqs EXCEPT ![p] = ReqDone("DELETE /comments/:id", NOT_FOUND)]
       ELSE IF comments[commentId].author_id # user /\ ~isModerator(role)
       THEN reqs' = [reqs EXCEPT ![p] = ReqDone("DELETE /comments/:id", FORBIDDEN)]
       ELSE reqs' = [reqs EXCEPT ![p] =
                [ReqIdle EXCEPT !.pc = "delete", !.route = "DELETE /comments/:id",
                                !.user = user, !.role = role, !.comment = commentId]]
    /\ UNCHANGED <<beyondBoards, pollOptions, pollVotes, nodes, threads, nextThread,
                   replies, comments>>

\* DELETE /comments/:id, the row deleted (no row, if it is gone by now).
DeleteCommentDelete(p) ==
    /\ reqs[p].pc = "delete"
    /\ comments' = Del(comments, reqs[p].comment)
    /\ reqs' = [reqs EXCEPT ![p] = ReqDone(reqs[p].route, OK)]
    /\ UNCHANGED <<beyondBoards, pollOptions, pollVotes, nodes, threads, nextThread, replies>>

\* Comments of any members on thread 1; two requests at a time.
InitComments ==
    /\ MembersOnly
    /\ MessagesIdle
    /\ nodes = Put(<<>>, 1, [thread_count |-> 1])
    /\ threads = Put(<<>>, 1, [node_id |-> 1, author_id |-> 1,
                               is_author_only |-> FALSE, type |-> "discussion"])
    /\ nextThread = 2
    /\ pollOptions = <<>>
    /\ pollVotes = <<>>
    /\ replies = <<>>
    /\ comments \in [1..MaxComment -> [author_id : Members]]
    /\ reqs = [p \in {1, 2} |-> ReqIdle]

NextComments ==
    \/ \E p \in Reqs, user \in Members, role \in UserRoles, commentId \in CommentParams :
           DeleteCommentCheck(p, user, role, commentId)
    \/ \E p \in Reqs : DeleteCommentDelete(p)

SpecComments == InitComments /\ [][NextComments]_vars

\* ------------------------------------------------------------- claim C30
\* C30: DELETE /comments/:id removes a comment only for its author or a user
\* of role admin or moderator. Anybody else is answered Forbidden and the
\* comment stays; a request for a positive id of no comment is answered
\* not-found and the table stays as it is; and every row that leaves the table
\* is the one a request of its author, an admin or a moderator named.
C30_OnlyAuthorOrModeratorDeletes ==
    [][/\ \A p \in Reqs, user \in Members, role \in UserRoles, commentId \in CommentParams :
              DeleteCommentCheck(p, user, role, commentId)
              => /\ comments' = comments
                 /\ (/\ commentId \in DOMAIN comments
                     /\ comments[commentId].author_id # user
                     /\ role \notin {"admin", "moderator"})
                    => (reqs'[p].pc = "done" /\ reqs'[p].status = FORBIDDEN)
                 /\ (commentId > 0 /\ commentId \notin DOMAIN comments)
                    => (reqs'[p].pc = "done" /\ reqs'[p].status = NOT_FOUND)
       /\ comments' # comments
          => \E p \in Reqs :
                 /\ reqs[p].pc = "delete"
                 /\ reqs[p].comment \in DOMAIN comments
                 /\ comments' = Del(comments, reqs[p].comment)
                 /\ \/ comments[reqs[p].comment].author_id = reqs[p].user
                    \/ reqs[p].role \in {"admin", "moderator"}
                 /\ reqs'[p].status = OK]_vars

\* One request was refused, another removed a comment, one is left.
C30_Witness ==
    /\ reqs[1].pc = "done" /\ reqs[1].status = FORBIDDEN
    /\ reqs[2].pc = "done" /\ reqs[2].status = OK
    /\ Cardinality(DOMAIN comments) = MaxComment - 1

====
